---- MODULE Spec2Model ----
(***************************************************************************)
(* Model of the IP geolocation service: request validation of the ip       *)
(* query value, the GET /v1/ip/lookup handler of src/main.py, the legacy   *)
(* IpapiClient it is wired to, and the two provider adapters IpApiCo and   *)
(* IpApiCom.                                                               *)
(*                                                                         *)
(* Text is modelled as a sequence of one-character strings, so that        *)
(* trimming, splitting, lower-casing, substring search and f-string        *)
(* concatenation are computed the way Python computes them.                *)
(***************************************************************************)
EXTENDS Integers, Sequences, FiniteSets, TLC

(***************************************************************************)
(* Bounds                                                                  *)
(***************************************************************************)
\* longest ip query value enumerated character by character
MaxIpLen == 4

(***************************************************************************)
(* Text helpers                                                            *)
(***************************************************************************)
DecDigits == <<"0", "1", "2", "3", "4", "5", "6", "7", "8", "9">>

IsDecDigit(c) == \E i \in 1..10 : DecDigits[i] = c

DigitVal(c) == (CHOOSE i \in 1..10 : DecDigits[i] = c) - 1

IsHexDigit(c) == IsDecDigit(c) \/ c \in {"a", "b", "c", "d", "e", "f", "A", "B", "C", "D", "E", "F"}

\* str.isspace() on the characters that occur in the model
IsSpace(c) == c \in {" ", "\t", "\n"}

RECURSIVE LStrip(_)
LStrip(s) == IF s # <<>> /\ IsSpace(Head(s)) THEN LStrip(Tail(s)) ELSE s

RECURSIVE RStrip(_)
RStrip(s) == IF s # <<>> /\ IsSpace(s[Len(s)]) THEN RStrip(SubSeq(s, 1, Len(s) - 1)) ELSE s

\* str.strip()
Strip(s) == RStrip(LStrip(s))

\* str.split(sep) for a one-character separator: always at least one part
RECURSIVE SplitAcc(_, _, _, _)
SplitAcc(s, sep, cur, acc) ==
    IF s = <<>> THEN Append(acc, cur)
    ELSE IF Head(s) = sep THEN SplitAcc(Tail(s), sep, <<>>, Append(acc, cur))
    ELSE SplitAcc(Tail(s), sep, Append(cur, Head(s)), acc)

Split(s, sep) == SplitAcc(s, sep, <<>>, <<>>)

HasChar(s, c) == \E i \in 1..Len(s) : s[i] = c

\* needle in haystack
IsSubstr(needle, hay) ==
    \E i \in 0..(Len(hay) - Len(needle)) :
        \A j \in 1..Len(needle) : hay[i + j] = needle[j]

\* int(s, 10) for a non-empty string of decimal digits
RECURSIVE DecVal(_)
DecVal(s) == IF s = <<>> THEN 0 ELSE 10 * DecVal(SubSeq(s, 1, Len(s) - 1)) + DigitVal(s[Len(s)])

\* str(n) for a natural number
RECURSIVE DecStr(_)
DecStr(n) == IF n < 10 THEN <<DecDigits[n + 1]>> ELSE Append(DecStr(n \div 10), DecDigits[(n % 10) + 1])

(***************************************************************************)
(* ipaddress.ip_address, as far as it decides acceptance                   *)
(***************************************************************************)
\* IPv4Address._parse_octet
OctetOk(o) ==
    /\ o # <<>>
    /\ \A i \in 1..Len(o) : IsDecDigit(o[i])
    /\ Len(o) <= 3
    /\ (o = <<"0">> \/ o[1] # "0")
    /\ DecVal(o) <= 255

\* IPv4Address._ip_int_from_string
IsIPv4(s) ==
    /\ s # <<>>
    /\ ~HasChar(s, "/")
    /\ LET octets == Split(s, ".")
       IN  Len(octets) = 4 /\ \A i \in 1..4 : OctetOk(octets[i])

\* IPv6Address._parse_hextet
HextetOk(h) ==
    /\ \A i \in 1..Len(h) : IsHexDigit(h[i])
    /\ Len(h) <= 4
    /\ h # <<>>

\* IPv6Address._ip_int_from_string applied to the list of parts
V6PartsOk(parts) ==
    LET n == Len(parts)
        skips == {i \in 2..(n - 1) : parts[i] = <<>>}
    IN  /\ n <= 9
        /\ Cardinality(skips) <= 1
        /\ IF skips # {}
           THEN LET k == CHOOSE i \in skips : TRUE
                    hi0 == k - 1
                    lo0 == n - k
                    hi == IF parts[1] = <<>> THEN hi0 - 1 ELSE hi0
                    lo == IF parts[n] = <<>> THEN lo0 - 1 ELSE lo0
                IN  /\ (parts[1] = <<>> => hi = 0)
                    /\ (parts[n] = <<>> => lo = 0)
                    /\ 8 - (hi + lo) >= 1
                    /\ \A i \in 1..hi : HextetOk(parts[i])
                    /\ \A i \in (n - lo + 1)..n : HextetOk(parts[i])
           ELSE /\ n = 8
                /\ \A i \in 1..n : HextetOk(parts[i])

\* IPv6Address.__init__ : scope id, then the address proper
IsIPv6(s) ==
    LET pct == {i \in 1..Len(s) : s[i] = "%"}
        first == IF pct = {} THEN Len(s) + 1 ELSE CHOOSE i \in pct : \A j \in pct : i <= j
        addr == SubSeq(s, 1, first - 1)
        scope == SubSeq(s, first + 1, Len(s))
        parts == Split(addr, ":")
        n == Len(parts)
    IN  /\ ~HasChar(s, "/")
        /\ (pct # {} => scope # <<>> /\ ~HasChar(scope, "%"))
        /\ addr # <<>>
        /\ n >= 3
        /\ IF HasChar(parts[n], ".")
           THEN /\ IsIPv4(parts[n])
                /\ V6PartsOk(SubSeq(parts, 1, n - 1) \o <<<<"0">>, <<"0">>>>)
           ELSE V6PartsOk(parts)

\* ip_address(s) returns (TRUE) or raises ValueError (FALSE)
ip_address(s) == IsIPv4(s) \/ IsIPv6(s)

(***************************************************************************)
(* Text constants of the source                                            *)
(***************************************************************************)
\* "No geolocation information found for this IP address."
MSG_NOT_FOUND ==
    <<"N", "o", " ", "g", "e", "o", "l", "o", "c", "a", "t", "i", "o", "n", " ", "i", "n", "f",
      "o", "r", "m", "a", "t", "i", "o", "n", " ", "f", "o", "u", "n", "d", " ", "f", "o", "r",
      " ", "t", "h", "i", "s", " ", "I", "P", " ", "a", "d", "d", "r", "e", "s", "s", ".">>

\* "IP provider returned HTTP 400 Bad Request: "
MSG_400_PREFIX ==
    <<"I", "P", " ", "p", "r", "o", "v", "i", "d", "e", "r", " ", "r", "e", "t", "u", "r", "n",
      "e", "d", " ", "H", "T", "T", "P", " ", "4", "0", "0", " ", "B", "a", "d", " ", "R", "e",
      "q", "u", "e", "s", "t", ":", " ">>

\* "Authentication with IP provider failed (HTTP 403)."
MSG_403 ==
    <<"A", "u", "t", "h", "e", "n", "t", "i", "c", "a", "t", "i", "o", "n", " ", "w", "i", "t",
      "h", " ", "I", "P", " ", "p", "r", "o", "v", "i", "d", "e", "r", " ", "f", "a", "i", "l",
      "e", "d", " ", "(", "H", "T", "T", "P", " ", "4", "0", "3", ")", ".">>

\* "HTTP method not allowed when calling IP provider (HTTP 405)."
MSG_405 ==
    <<"H", "T", "T", "P", " ", "m", "e", "t", "h", "o", "d", " ", "n", "o", "t", " ", "a", "l",
      "l", "o", "w", "e", "d", " ", "w", "h", "e", "n", " ", "c", "a", "l", "l", "i", "n", "g",
      " ", "I", "P", " ", "p", "r", "o", "v", "i", "d", "e", "r", " ", "(", "H", "T", "T", "P",
      " ", "4", "0", "5", ")", ".">>

\* "IP provider rate limit or quota exceeded (HTTP 429)."
MSG_429 ==
    <<"I", "P", " ", "p", "r", "o", "v", "i", "d", "e", "r", " ", "r", "a", "t", "e", " ", "l",
      "i", "m", "i", "t", " ", "o", "r", " ", "q", "u", "o", "t", "a", " ", "e", "x", "c", "e",
      "e", "d", "e", "d", " ", "(", "H", "T", "T", "P", " ", "4", "2", "9", ")", ".">>

\* "IP provider returned HTTP "
MSG_HTTP_PREFIX ==
    <<"I", "P", " ", "p", "r", "o", "v", "i", "d", "e", "r", " ", "r", "e", "t", "u", "r", "n",
      "e", "d", " ", "H", "T", "T", "P", " ">>

\* ": "
MSG_COLON ==
    <<":", " ">>

\* "Request to IP provider failed: "
MSG_REQUEST_FAILED ==
    <<"R", "e", "q", "u", "e", "s", "t", " ", "t", "o", " ", "I", "P", " ", "p", "r", "o", "v",
      "i", "d", "e", "r", " ", "f", "a", "i", "l", "e", "d", ":", " ">>

\* "Failed to decode IP provider response as JSON: "
MSG_DECODE_FAILED ==
    <<"F", "a", "i", "l", "e", "d", " ", "t", "o", " ", "d", "e", "c", "o", "d", "e", " ", "I",
      "P", " ", "p", "r", "o", "v", "i", "d", "e", "r", " ", "r", "e", "s", "p", "o", "n", "s",
      "e", " ", "a", "s", " ", "J", "S", "O", "N", ":", " ">>

\* "Unknown error from ipapi.co"
MSG_UNKNOWN_CO ==
    <<"U", "n", "k", "n", "o", "w", "n", " ", "e", "r", "r", "o", "r", " ", "f", "r", "o", "m",
      " ", "i", "p", "a", "p", "i", ".", "c", "o">>

\* "Unknown error from ip-api.com"
MSG_UNKNOWN_COM ==
    <<"U", "n", "k", "n", "o", "w", "n", " ", "e", "r", "r", "o", "r", " ", "f", "r", "o", "m",
      " ", "i", "p", "-", "a", "p", "i", ".", "c", "o", "m">>

\* "IP provider rate limit or quota exceeded: "
MSG_RATE_PREFIX ==
    <<"I", "P", " ", "p", "r", "o", "v", "i", "d", "e", "r", " ", "r", "a", "t", "e", " ", "l",
      "i", "m", "i", "t", " ", "o", "r", " ", "q", "u", "o", "t", "a", " ", "e", "x", "c", "e",
      "e", "d", "e", "d", ":", " ">>

\* "The supplied IP address is not a valid IPv4 or IPv6 address."
MSG_VALIDATION_IP ==
    <<"T", "h", "e", " ", "s", "u", "p", "p", "l", "i", "e", "d", " ", "I", "P", " ", "a", "d",
      "d", "r", "e", "s", "s", " ", "i", "s", " ", "n", "o", "t", " ", "a", " ", "v", "a", "l",
      "i", "d", " ", "I", "P", "v", "4", " ", "o", "r", " ", "I", "P", "v", "6", " ", "a", "d",
      "d", "r", "e", "s", "s", ".">>

\* "Invalid request parameters"
MSG_VALIDATION ==
    <<"I", "n", "v", "a", "l", "i", "d", " ", "r", "e", "q", "u", "e", "s", "t", " ", "p", "a",
      "r", "a", "m", "e", "t", "e", "r", "s">>

\* "An unexpected error occurred while processing the request."
MSG_INTERNAL ==
    <<"A", "n", " ", "u", "n", "e", "x", "p", "e", "c", "t", "e", "d", " ", "e", "r", "r", "o",
      "r", " ", "o", "c", "c", "u", "r", "r", "e", "d", " ", "w", "h", "i", "l", "e", " ", "p",
      "r", "o", "c", "e", "s", "s", "i", "n", "g", " ", "t", "h", "e", " ", "r", "e", "q", "u",
      "e", "s", "t", ".">>

\* "invalid ip address"
N_invalid_ip_address ==
    <<"i", "n", "v", "a", "l", "i", "d", " ", "i", "p", " ", "a", "d", "d", "r", "e", "s", "s">>

\* "invalid"
N_invalid ==
    <<"i", "n", "v", "a", "l", "i", "d">>

\* "reserved ip address"
N_reserved_ip_address ==
    <<"r", "e", "s", "e", "r", "v", "e", "d", " ", "i", "p", " ", "a", "d", "d", "r", "e", "s", "s">>

\* "reserved"
N_reserved ==
    <<"r", "e", "s", "e", "r", "v", "e", "d">>

\* "private"
N_private ==
    <<"p", "r", "i", "v", "a", "t", "e">>

\* "ratelimited"
N_ratelimited ==
    <<"r", "a", "t", "e", "l", "i", "m", "i", "t", "e", "d">>

\* "quota"
N_quota ==
    <<"q", "u", "o", "t", "a">>

\* "invalid query"
N_invalid_query ==
    <<"i", "n", "v", "a", "l", "i", "d", " ", "q", "u", "e", "r", "y">>

\* "private range"
N_private_range ==
    <<"p", "r", "i", "v", "a", "t", "e", " ", "r", "a", "n", "g", "e">>

\* "reserved range"
N_reserved_range ==
    <<"r", "e", "s", "e", "r", "v", "e", "d", " ", "r", "a", "n", "g", "e">>

\* "limit"
N_limit ==
    <<"l", "i", "m", "i", "t">>

\* "not found"
N_not_found ==
    <<"n", "o", "t", " ", "f", "o", "u", "n", "d">>

\* "success"
N_success ==
    <<"s", "u", "c", "c", "e", "s", "s">>

\* "True"
S_True ==
    <<"T", "r", "u", "e">>

\* "False"
S_False ==
    <<"F", "a", "l", "s", "e">>

\* "None"
S_None ==
    <<"N", "o", "n", "e">>

(***************************************************************************)
(* Python values as they come out of response.json()                       *)
(***************************************************************************)
\* one unit of a modelled float is 10^-7, so that rounding to 6 places acts
FloatScale == 10000000

\* a JSON value: t is its Python type, s its text (str), n its number
\* (bool: 0/1, int: the integer, float: the value in units of 10^-7,
\* list/dict: its length)
JNull == [t |-> "null", s |-> <<>>, n |-> 0]

JStr(s) == [t |-> "str", s |-> s, n |-> 0]

JBool(b) == [t |-> "bool", s |-> <<>>, n |-> IF b THEN 1 ELSE 0]

JInt(n) == [t |-> "int", s |-> <<>>, n |-> n]

JFloat(units) == [t |-> "float", s |-> <<>>, n |-> units]

JList(len) == [t |-> "list", s |-> <<>>, n |-> len]

\* sys.float_info.max_10_exp: 10^308 is a float, 10^309 is not
FloatMaxExp10 == 308

\* an int of more than FloatMaxExp10 + 1 digits, s its decimal text
JBigInt(s) == [t |-> "bigint", s |-> s, n |-> 1]

\* float(v) raised OverflowError (int too large to convert to float)
OverflowRaised == [t |-> "OverflowError", s |-> <<>>, n |-> 0]

JDict(len) == [t |-> "dict", s |-> <<>>, n |-> len]

\* dict.get(key): None when the key is missing
Get(d, k) == IF k \in DOMAIN d THEN d[k] ELSE JNull

\* bool(v)
Truthy(v) ==
    CASE v.t = "null" -> FALSE
      [] v.t = "str" -> v.s # <<>>
      [] OTHER -> v.n # 0

\* a or b
Or(a, b) == IF Truthy(a) THEN a ELSE b

\* str(v) for the values that reach it with a text the model can spell
PyStr(v) ==
    CASE v.t = "str" -> v.s
      [] v.t = "null" -> S_None
      [] v.t = "bool" -> IF v.n = 1 THEN S_True ELSE S_False
      [] v.t = "int" -> IF v.n < 0 THEN <<"-">> \o DecStr(0 - v.n) ELSE DecStr(v.n)
      [] v.t = "bigint" -> v.s
      [] v.t = "float" ->
            LET a == IF v.n < 0 THEN 0 - v.n ELSE v.n
                frac == DecStr(FloatScale + (a % FloatScale))
                RECURSIVE Trim(_)
                Trim(f) == IF Len(f) > 1 /\ f[Len(f)] = "0" THEN Trim(SubSeq(f, 1, Len(f) - 1)) ELSE f
            IN  (IF v.n < 0 THEN <<"-">> ELSE <<>>) \o DecStr(a \div FloatScale) \o <<".">>
                    \o Trim(Tail(frac))
      [] v.t = "list" -> IF v.n = 0 THEN <<"[", "]">> ELSE <<"[", ".", ".", ".", "]">>
      [] OTHER -> IF v.n = 0 THEN <<"{", "}">> ELSE <<"{", ".", ".", ".", "}">>

UpperCs == <<"A", "B", "C", "D", "E", "F", "G", "H", "I", "J", "K", "L", "M",
             "N", "O", "P", "Q", "R", "S", "T", "U", "V", "W", "X", "Y", "Z">>

LowerCs == <<"a", "b", "c", "d", "e", "f", "g", "h", "i", "j", "k", "l", "m",
             "n", "o", "p", "q", "r", "s", "t", "u", "v", "w", "x", "y", "z">>

LowerChar(c) ==
    IF \E i \in 1..26 : UpperCs[i] = c
    THEN LowerCs[CHOOSE i \in 1..26 : UpperCs[i] = c]
    ELSE c

\* str.lower()
Lower(s) == [i \in 1..Len(s) |-> LowerChar(s[i])]

(***************************************************************************)
(* float(v) and round(x, 6)                                                *)
(***************************************************************************)
AllDigits(s) == \A i \in 1..Len(s) : IsDecDigit(s[i])

\* the fraction digits of a decimal literal as units of 10^-7 (digits past
\* the seventh are below the resolution of the model)
FracUnits(f) ==
    LET g == IF Len(f) >= 7 THEN SubSeq(f, 1, 7) ELSE f
        RECURSIVE Pad(_)
        Pad(x) == IF Len(x) < 7 THEN Pad(Append(x, "0")) ELSE x
    IN  DecVal(Pad(g))

\* float(s) for a str: surrounding whitespace and a sign are allowed, then
\* digits with an optional fraction; anything else raises ValueError
FloatOfStr(s) ==
    LET t == Strip(s)
        neg == t # <<>> /\ t[1] = "-"
        u == IF t # <<>> /\ t[1] \in {"-", "+"} THEN Tail(t) ELSE t
        parts == Split(u, ".")
        ip == parts[1]
        fp == IF Len(parts) = 2 THEN parts[2] ELSE <<>>
        ok == /\ Len(parts) <= 2
              /\ AllDigits(ip) /\ AllDigits(fp)
              /\ (ip # <<>> \/ fp # <<>>)
              /\ Len(ip) <= 3
        mag == DecVal(ip) * FloatScale + FracUnits(fp)
    IN  IF ok THEN [ok |-> TRUE, n |-> IF neg THEN 0 - mag ELSE mag]
        ELSE [ok |-> FALSE, n |-> 0]

\* round(x, 6): to the nearest multiple of 10 units, ties to even
Round6(n) ==
    LET a == IF n < 0 THEN 0 - n ELSE n
        q == a \div 10
        r == a % 10
        up == r > 5 \/ (r = 5 /\ q % 2 = 1)
        m == (IF up THEN q + 1 ELSE q) * 10
    IN  IF n < 0 THEN 0 - m ELSE m

\* IPGeolocationData._coerce_lat_lon / IpGeolocationData._coerce_lat_lon
\* (TypeError and ValueError become None; the OverflowError of float() for
\* an int beyond the range of float is not among the caught classes)
_coerce_lat_lon(v) ==
    CASE v.t = "null" -> JNull
      [] v.t = "float" -> JFloat(Round6(v.n))
      [] v.t = "int" -> JFloat(Round6(v.n * FloatScale))
      [] v.t = "bigint" -> OverflowRaised
      [] v.t = "bool" -> JFloat(Round6(v.n * FloatScale))
      [] v.t = "str" -> LET f == FloatOfStr(v.s)
                        IN  IF f.ok THEN JFloat(Round6(f.n)) ELSE JNull
      [] OTHER -> JNull

\* pydantic: a field declared str | None takes a str or None, nothing else
IsOptStr(v) == v.t \in {"str", "null"}

(***************************************************************************)
(* Outcomes of a client call: a record or a raised exception               *)
(***************************************************************************)
NoRec == [k \in {} |-> JNull]

\* an exception of class kind defined in module origin, str(exc) = msg;
\* locs are the error locations of a pydantic ValidationError
Raise(kind, origin, msg) == [kind |-> kind, origin |-> origin, msg |-> msg, locs |-> <<>>, rec |-> NoRec]

\* no exception raised: the caller goes on
Pass == [kind |-> "none", origin |-> "", msg |-> <<>>, locs |-> <<>>, rec |-> NoRec]

\* a normalized record returned
Return(rec) == [kind |-> "record", origin |-> "", msg |-> <<>>, locs |-> <<>>, rec |-> rec]

ErrorKinds == {"InvalidIpError", "ReservedIpError", "IpNotFoundError", "UpstreamServiceError"}

\* the string fields pydantic checks when the record is built, in
\* declaration order; a failure lists every offending field. An exception
\* of a validator that is no ValueError leaves the constructor at once
BuildModel(rec, optStrFields) ==
    LET bad == SelectSeq(optStrFields, LAMBDA f : ~IsOptStr(rec[f]))
    IN  IF rec.latitude = OverflowRaised \/ rec.longitude = OverflowRaised
        THEN [kind |-> "OverflowError", origin |-> "builtins", msg |-> <<>>, locs |-> <<>>, rec |-> NoRec]
        ELSE IF bad # <<>>
        THEN [kind |-> "ValidationError", origin |-> "pydantic", msg |-> <<>>, locs |-> bad, rec |-> NoRec]
        ELSE Return(rec)

\* repr(exc) and str(exc) of a transport error
Repr(e) == e.cls \o <<"(", "'">> \o e.desc \o <<"'", ")">>

\* an except clause that misses the timeouts
IsRequestErrorNoTimeout(e) == e.base = "RequestError" /\ e.name # "ReadTimeout"

\* except httpx.RequestError: every transport error class of httpx derives
\* from it (TimeoutException and NetworkError through TransportError)
IsRequestError(e) == e.base = "RequestError"

(***************************************************************************)
(* IpApiCo (src/clients/ip_api_co_client.py)                               *)
(***************************************************************************)
\* _handle_http_errors without the 404 rule: a 404 goes on to the body
CoHttpErrorsNo404(response) ==
    LET status_code == response.status
    IN  CASE status_code = 400 ->
                Raise("UpstreamServiceError", "src.errors", MSG_400_PREFIX \o response.text)
          [] status_code = 403 -> Raise("UpstreamServiceError", "src.errors", MSG_403)
          [] status_code = 405 -> Raise("UpstreamServiceError", "src.errors", MSG_405)
          [] status_code = 429 -> Raise("UpstreamServiceError", "src.errors", MSG_429)
          [] status_code >= 500 ->
                Raise("UpstreamServiceError", "src.errors",
                      MSG_HTTP_PREFIX \o DecStr(status_code) \o MSG_COLON \o response.text)
          [] OTHER -> Pass

\* _handle_http_errors that lets no 2xx status but 200 through
CoHttpErrorsOnly200(response) ==
    LET status_code == response.status
    IN  CASE status_code = 400 ->
                Raise("UpstreamServiceError", "src.errors", MSG_400_PREFIX \o response.text)
          [] status_code = 403 -> Raise("UpstreamServiceError", "src.errors", MSG_403)
          [] status_code = 405 -> Raise("UpstreamServiceError", "src.errors", MSG_405)
          [] status_code = 429 -> Raise("UpstreamServiceError", "src.errors", MSG_429)
          [] status_code >= 500 ->
                Raise("UpstreamServiceError", "src.errors",
                      MSG_HTTP_PREFIX \o DecStr(status_code) \o MSG_COLON \o response.text)
          [] status_code = 404 -> Raise("IpNotFoundError", "src.errors", MSG_NOT_FOUND)
          [] status_code # 200 /\ status_code < 300 ->
                Raise("UpstreamServiceError", "src.errors",
                      MSG_HTTP_PREFIX \o DecStr(status_code) \o MSG_COLON \o response.text)
          [] OTHER -> Pass

Co_handle_http_errors(response) ==
    LET status_code == response.status
    IN  CASE status_code = 400 ->
                Raise("UpstreamServiceError", "src.errors", MSG_400_PREFIX \o response.text)
          [] status_code = 403 -> Raise("UpstreamServiceError", "src.errors", MSG_403)
          [] status_code = 405 -> Raise("UpstreamServiceError", "src.errors", MSG_405)
          [] status_code = 429 -> Raise("UpstreamServiceError", "src.errors", MSG_429)
          [] status_code >= 500 ->
                Raise("UpstreamServiceError", "src.errors",
                      MSG_HTTP_PREFIX \o DecStr(status_code) \o MSG_COLON \o response.text)
          [] status_code = 404 -> Raise("IpNotFoundError", "src.errors", MSG_NOT_FOUND)
          [] OTHER -> Pass

\* _handle_provider_error with the reserved rule tried before the invalid rule
CoProviderErrorReservedFirst(data) ==
    IF ~Truthy(Get(data, "error")) THEN Pass
    ELSE LET reason == PyStr(Or(Or(Get(data, "reason"), Get(data, "message")), JStr(MSG_UNKNOWN_CO)))
             lower_reason == Lower(reason)
         IN  IF \/ IsSubstr(N_reserved_ip_address, lower_reason)
                \/ IsSubstr(N_reserved, lower_reason)
                \/ Get(data, "reserved") = JBool(TRUE)
             THEN Raise("ReservedIpError", "src.errors", reason)
             ELSE IF IsSubstr(N_invalid_ip_address, lower_reason) \/ IsSubstr(N_invalid, lower_reason)
             THEN Raise("InvalidIpError", "src.errors", reason)
             ELSE IF IsSubstr(N_ratelimited, lower_reason) \/ IsSubstr(N_quota, lower_reason)
             THEN Raise("UpstreamServiceError", "src.errors", MSG_RATE_PREFIX \o reason)
             ELSE Raise("UpstreamServiceError", "src.errors", reason)

\* _handle_provider_error that also classifies a body with reserved = true
\* and no error flag
CoProviderErrorNoFlagCheck(data) ==
    IF ~Truthy(Get(data, "error")) /\ Get(data, "reserved") # JBool(TRUE) THEN Pass
    ELSE LET reason == PyStr(Or(Or(Get(data, "reason"), Get(data, "message")), JStr(MSG_UNKNOWN_CO)))
             lower_reason == Lower(reason)
         IN  IF IsSubstr(N_invalid_ip_address, lower_reason) \/ IsSubstr(N_invalid, lower_reason)
             THEN Raise("InvalidIpError", "src.errors", reason)
             ELSE IF \/ IsSubstr(N_reserved_ip_address, lower_reason)
                     \/ IsSubstr(N_reserved, lower_reason)
                     \/ Get(data, "reserved") = JBool(TRUE)
             THEN Raise("ReservedIpError", "src.errors", reason)
             ELSE IF IsSubstr(N_ratelimited, lower_reason) \/ IsSubstr(N_quota, lower_reason)
             THEN Raise("UpstreamServiceError", "src.errors", MSG_RATE_PREFIX \o reason)
             ELSE Raise("UpstreamServiceError", "src.errors", reason)

Co_handle_provider_error(data) ==
    IF ~Truthy(Get(data, "error")) THEN Pass
    ELSE LET reason == PyStr(Or(Or(Get(data, "reason"), Get(data, "message")), JStr(MSG_UNKNOWN_CO)))
             lower_reason == Lower(reason)
         IN  IF IsSubstr(N_invalid_ip_address, lower_reason) \/ IsSubstr(N_invalid, lower_reason)
             THEN Raise("InvalidIpError", "src.errors", reason)
             ELSE IF \/ IsSubstr(N_reserved_ip_address, lower_reason)
                     \/ IsSubstr(N_reserved, lower_reason)
                     \/ Get(data, "reserved") = JBool(TRUE)
             THEN Raise("ReservedIpError", "src.errors", reason)
             ELSE IF IsSubstr(N_ratelimited, lower_reason) \/ IsSubstr(N_quota, lower_reason)
             THEN Raise("UpstreamServiceError", "src.errors", MSG_RATE_PREFIX \o reason)
             ELSE Raise("UpstreamServiceError", "src.errors", reason)

\* _parse_json without the except clause: the decode error leaves as it is
CoParseJsonUncaught(response) ==
    IF response.json = "invalid"
    THEN Raise("JSONDecodeError", "json", response.jsonErr)
    ELSE Pass

Co_parse_json(response) ==
    IF response.json = "invalid"
    THEN Raise("UpstreamServiceError", "src.errors", MSG_DECODE_FAILED \o response.jsonErr)
    ELSE Pass

\* _normalize_payload that reads isp from the key isp
CoNormalizeIspFromIsp(data) ==
    BuildModel([ip |-> JStr(PyStr(Or(Get(data, "ip"), JStr(<<>>)))),
                country |-> JStr(PyStr(Or(Get(data, "country"), JStr(<<>>)))),
                country_name |-> JStr(PyStr(Or(Get(data, "country_name"), JStr(<<>>)))),
                region |-> Get(data, "region"),
                city |-> Get(data, "city"),
                postal_code |-> Get(data, "postal"),
                latitude |-> _coerce_lat_lon(Get(data, "latitude")),
                longitude |-> _coerce_lat_lon(Get(data, "longitude")),
                timezone |-> Get(data, "timezone"),
                isp |-> Get(data, "isp")],
               <<"region", "city", "postal_code", "timezone", "isp">>)

Co_normalize_payload(data) ==
    BuildModel([ip |-> JStr(PyStr(Or(Get(data, "ip"), JStr(<<>>)))),
                country |-> JStr(PyStr(Or(Get(data, "country"), JStr(<<>>)))),
                country_name |-> JStr(PyStr(Or(Get(data, "country_name"), JStr(<<>>)))),
                region |-> Get(data, "region"),
                city |-> Get(data, "city"),
                postal_code |-> Get(data, "postal"),
                latitude |-> _coerce_lat_lon(Get(data, "latitude")),
                longitude |-> _coerce_lat_lon(Get(data, "longitude")),
                timezone |-> Get(data, "timezone"),
                isp |-> Get(data, "org")],
               <<"region", "city", "postal_code", "timezone", "isp">>)

\* what happens once the awaited client.get(url) has ended
Co_request(reply) ==
    IF reply.failed
    THEN IF IsRequestError(reply.exc)
         THEN Raise("UpstreamServiceError", "src.errors", MSG_REQUEST_FAILED \o Repr(reply.exc))
         ELSE Raise(reply.exc.name, "httpx", reply.exc.desc)
    ELSE LET e1 == Co_handle_http_errors(reply)
             e2 == Co_parse_json(reply)
         IN  IF e1.kind # "none" THEN e1
             ELSE IF e2.kind # "none" THEN e2
             ELSE IF reply.json # "dict"
             THEN Raise("AttributeError", "builtins", <<>>)
             ELSE LET e3 == Co_handle_provider_error(reply.d)
                  IN  IF e3.kind # "none" THEN e3 ELSE Co_normalize_payload(reply.d)

(***************************************************************************)
(* IpApiCom (src/clients/ip_api_com_client.py)                             *)
(***************************************************************************)
\* _handle_http_errors with a 5xx message that leaves out the body text
ComHttpErrorsNoBody(response) ==
    LET status_code == response.status
    IN  IF status_code = 404
        THEN Raise("IpNotFoundError", "src.errors", MSG_NOT_FOUND)
        ELSE IF status_code = 429
        THEN Raise("UpstreamServiceError", "src.errors", MSG_429)
        ELSE IF 400 <= status_code /\ status_code < 500
        THEN Raise("UpstreamServiceError", "src.errors",
                   MSG_HTTP_PREFIX \o DecStr(status_code) \o MSG_COLON \o response.text)
        ELSE IF status_code >= 500
        THEN Raise("UpstreamServiceError", "src.errors",
                   MSG_HTTP_PREFIX \o DecStr(status_code))
        ELSE Pass

Com_handle_http_errors(response) ==
    LET status_code == response.status
    IN  IF status_code = 404
        THEN Raise("IpNotFoundError", "src.errors", MSG_NOT_FOUND)
        ELSE IF status_code = 429
        THEN Raise("UpstreamServiceError", "src.errors", MSG_429)
        ELSE IF 400 <= status_code /\ status_code < 500
        THEN Raise("UpstreamServiceError", "src.errors",
                   MSG_HTTP_PREFIX \o DecStr(status_code) \o MSG_COLON \o response.text)
        ELSE IF status_code >= 500
        THEN Raise("UpstreamServiceError", "src.errors",
                   MSG_HTTP_PREFIX \o DecStr(status_code) \o MSG_COLON \o response.text)
        ELSE Pass

\* _handle_provider_status with the not-found rule tried before the
\* quota/limit rule
ComProviderStatusNotFoundFirst(data) ==
    LET status_value == Lower(PyStr(Or(Get(data, "status"), JStr(<<>>))))
        message == PyStr(Or(Get(data, "message"), JStr(MSG_UNKNOWN_COM)))
        lower_msg == Lower(message)
    IN  IF status_value = N_success THEN Pass
        ELSE IF IsSubstr(N_invalid_query, lower_msg) \/ IsSubstr(N_invalid, lower_msg)
        THEN Raise("InvalidIpError", "src.errors", message)
        ELSE IF IsSubstr(N_private_range, lower_msg) \/ IsSubstr(N_reserved_range, lower_msg)
        THEN Raise("ReservedIpError", "src.errors", message)
        ELSE IF IsSubstr(N_not_found, lower_msg)
        THEN Raise("IpNotFoundError", "src.errors", message)
        ELSE IF IsSubstr(N_quota, lower_msg) \/ IsSubstr(N_limit, lower_msg)
        THEN Raise("UpstreamServiceError", "src.errors", MSG_RATE_PREFIX \o message)
        ELSE Raise("UpstreamServiceError", "src.errors", message)

\* _handle_provider_status that takes a body without a status for a success
ComProviderStatusMissingOk(data) ==
    LET status_value == Lower(PyStr(Or(Get(data, "status"), JStr(<<>>))))
        message == PyStr(Or(Get(data, "message"), JStr(MSG_UNKNOWN_COM)))
        lower_msg == Lower(message)
    IN  IF status_value = N_success \/ status_value = <<>> THEN Pass
        ELSE IF IsSubstr(N_invalid_query, lower_msg) \/ IsSubstr(N_invalid, lower_msg)
        THEN Raise("InvalidIpError", "src.errors", message)
        ELSE IF IsSubstr(N_private_range, lower_msg) \/ IsSubstr(N_reserved_range, lower_msg)
        THEN Raise("ReservedIpError", "src.errors", message)
        ELSE IF IsSubstr(N_quota, lower_msg) \/ IsSubstr(N_limit, lower_msg)
        THEN Raise("UpstreamServiceError", "src.errors", MSG_RATE_PREFIX \o message)
        ELSE IF IsSubstr(N_not_found, lower_msg)
        THEN Raise("IpNotFoundError", "src.errors", message)
        ELSE Raise("UpstreamServiceError", "src.errors", message)

Com_handle_provider_status(data) ==
    LET status_value == Lower(PyStr(Or(Get(data, "status"), JStr(<<>>))))
        message == PyStr(Or(Get(data, "message"), JStr(MSG_UNKNOWN_COM)))
        lower_msg == Lower(message)
    IN  IF status_value = N_success THEN Pass
        ELSE IF IsSubstr(N_invalid_query, lower_msg) \/ IsSubstr(N_invalid, lower_msg)
        THEN Raise("InvalidIpError", "src.errors", message)
        ELSE IF IsSubstr(N_private_range, lower_msg) \/ IsSubstr(N_reserved_range, lower_msg)
        THEN Raise("ReservedIpError", "src.errors", message)
        ELSE IF IsSubstr(N_quota, lower_msg) \/ IsSubstr(N_limit, lower_msg)
        THEN Raise("UpstreamServiceError", "src.errors", MSG_RATE_PREFIX \o message)
        ELSE IF IsSubstr(N_not_found, lower_msg)
        THEN Raise("IpNotFoundError", "src.errors", message)
        ELSE Raise("UpstreamServiceError", "src.errors", message)

Com_parse_json(response) ==
    IF response.json = "invalid"
    THEN Raise("UpstreamServiceError", "src.errors", MSG_DECODE_FAILED \o response.jsonErr)
    ELSE Pass

\* _normalize_payload that prefers org to isp
ComNormalizeOrgFirst(data) ==
    LET region_name == Or(Or(Get(data, "regionName"), Get(data, "region")), JStr(<<>>))
        region == Or(JStr(PyStr(region_name)), JNull)
        postal == JStr(PyStr(Or(Get(data, "zip"), JStr(<<>>))))
        postal_code == Or(postal, JNull)
    IN  BuildModel([ip |-> JStr(PyStr(Or(Get(data, "query"), JStr(<<>>)))),
                    country |-> JStr(PyStr(Or(Get(data, "countryCode"), JStr(<<>>)))),
                    country_name |-> JStr(PyStr(Or(Get(data, "country"), JStr(<<>>)))),
                    region |-> region,
                    city |-> Get(data, "city"),
                    postal_code |-> postal_code,
                    latitude |-> _coerce_lat_lon(Get(data, "lat")),
                    longitude |-> _coerce_lat_lon(Get(data, "lon")),
                    timezone |-> Get(data, "timezone"),
                    isp |-> Or(Get(data, "org"), Get(data, "isp"))],
                   <<"region", "city", "postal_code", "timezone", "isp">>)

Com_normalize_payload(data) ==
    LET region_name == Or(Or(Get(data, "regionName"), Get(data, "region")), JStr(<<>>))
        region == Or(JStr(PyStr(region_name)), JNull)
        postal == JStr(PyStr(Or(Get(data, "zip"), JStr(<<>>))))
        postal_code == Or(postal, JNull)
    IN  BuildModel([ip |-> JStr(PyStr(Or(Get(data, "query"), JStr(<<>>)))),
                    country |-> JStr(PyStr(Or(Get(data, "countryCode"), JStr(<<>>)))),
                    country_name |-> JStr(PyStr(Or(Get(data, "country"), JStr(<<>>)))),
                    region |-> region,
                    city |-> Get(data, "city"),
                    postal_code |-> postal_code,
                    latitude |-> _coerce_lat_lon(Get(data, "lat")),
                    longitude |-> _coerce_lat_lon(Get(data, "lon")),
                    timezone |-> Get(data, "timezone"),
                    isp |-> Or(Get(data, "isp"), Get(data, "org"))],
                   <<"region", "city", "postal_code", "timezone", "isp">>)

\* what happens once the awaited client.get(url) has ended
Com_request(reply) ==
    IF reply.failed
    THEN IF IsRequestError(reply.exc)
         THEN Raise("UpstreamServiceError", "src.errors", MSG_REQUEST_FAILED \o Repr(reply.exc))
         ELSE Raise(reply.exc.name, "httpx", reply.exc.desc)
    ELSE LET e1 == Com_handle_http_errors(reply)
             e2 == Com_parse_json(reply)
         IN  IF e1.kind # "none" THEN e1
             ELSE IF e2.kind # "none" THEN e2
             ELSE IF reply.json # "dict"
             THEN Raise("AttributeError", "builtins", <<>>)
             ELSE LET e3 == Com_handle_provider_status(reply.d)
                  IN  IF e3.kind # "none" THEN e3 ELSE Com_normalize_payload(reply.d)

(***************************************************************************)
(* IpapiClient (src/ipapi_client.py), the client main.py is wired to       *)
(***************************************************************************)
Legacy_parse_json(response) ==
    IF response.json = "invalid"
    THEN Raise("UpstreamServiceError", "src.ipapi_client", MSG_DECODE_FAILED \o response.jsonErr)
    ELSE Pass

\* _normalize_payload that reads isp from the key isp
LegacyNormalizeIspFromIsp(data) ==
    BuildModel([ip |-> JStr(PyStr(Or(Get(data, "ip"), JStr(<<>>)))),
                country |-> JStr(PyStr(Or(Get(data, "country"), JStr(<<>>)))),
                country_name |-> JStr(PyStr(Or(Get(data, "country_name"), JStr(<<>>)))),
                region |-> Get(data, "region"),
                city |-> Get(data, "city"),
                latitude |-> _coerce_lat_lon(Get(data, "latitude")),
                longitude |-> _coerce_lat_lon(Get(data, "longitude")),
                timezone |-> Get(data, "timezone"),
                isp |-> Get(data, "isp")],
               <<"region", "city", "timezone", "isp">>)

Legacy_normalize_payload(data) ==
    BuildModel([ip |-> JStr(PyStr(Or(Get(data, "ip"), JStr(<<>>)))),
                country |-> JStr(PyStr(Or(Get(data, "country"), JStr(<<>>)))),
                country_name |-> JStr(PyStr(Or(Get(data, "country_name"), JStr(<<>>)))),
                region |-> Get(data, "region"),
                city |-> Get(data, "city"),
                latitude |-> _coerce_lat_lon(Get(data, "latitude")),
                longitude |-> _coerce_lat_lon(Get(data, "longitude")),
                timezone |-> Get(data, "timezone"),
                isp |-> Get(data, "org")],
               <<"region", "city", "timezone", "isp">>)

\* the body's error flag and its classification (lines 101-107)
Legacy_provider_error(data) ==
    IF ~Truthy(Get(data, "error")) THEN Pass
    ELSE LET reason == PyStr(Or(Or(Get(data, "reason"), Get(data, "message")), JStr(MSG_UNKNOWN_CO)))
             lower_reason == Lower(reason)
         IN  IF \/ IsSubstr(N_invalid, lower_reason)
                \/ IsSubstr(N_reserved, lower_reason)
                \/ IsSubstr(N_private, lower_reason)
             THEN Raise("InvalidIpError", "src.ipapi_client", reason)
             ELSE Raise("UpstreamServiceError", "src.ipapi_client", reason)

\* what happens once the awaited client.get(url) has ended
Legacy_request(reply) ==
    IF reply.failed
    THEN IF IsRequestError(reply.exc)
         THEN Raise("UpstreamServiceError", "src.ipapi_client", MSG_REQUEST_FAILED \o reply.exc.desc)
         ELSE Raise(reply.exc.name, "httpx", reply.exc.desc)
    ELSE IF reply.status >= 500
    THEN Raise("UpstreamServiceError", "src.ipapi_client",
               MSG_HTTP_PREFIX \o DecStr(reply.status) \o MSG_COLON \o reply.text)
    ELSE IF reply.status = 404
    THEN Raise("IpNotFoundError", "src.ipapi_client", MSG_NOT_FOUND)
    ELSE LET e2 == Legacy_parse_json(reply)
         IN  IF e2.kind # "none" THEN e2
             ELSE IF reply.json # "dict"
             THEN Raise("AttributeError", "builtins", <<>>)
             ELSE LET e3 == Legacy_provider_error(reply.d)
                  IN  IF e3.kind # "none" THEN e3 ELSE Legacy_normalize_payload(reply.d)

\* the _request of the client named c
ClientRequest(c, reply) ==
    CASE c = "IpApiCo" -> Co_request(reply)
      [] c = "IpApiCom" -> Com_request(reply)
      [] OTHER -> Legacy_request(reply)

\* the attributes a client instance gets from its constructor's defaults
__init__(c) ==
    [_base_url |-> IF c = "IpApiCom" THEN "http://ip-api.com" ELSE "https://ipapi.co",
     _timeout_seconds |-> 5]

\* a lookup whose outcome depends on the operation: the caller lookup takes
\* a 404 for an upstream failure
OutcomeByOperation(c, o, ip, reply) ==
    IF o = "lookup_client_ip" /\ ~reply.failed /\ reply.status = 404
    THEN Raise("UpstreamServiceError", "src.errors", MSG_NOT_FOUND)
    ELSE ClientRequest(c, reply)

\* lookup_ip(ip) / lookup_client_ip(): the operation o and the address only
\* make the url of the GET; what is returned is what _request makes of the
\* reply to that GET
Outcome(c, o, ip, reply) == ClientRequest(c, reply)

(***************************************************************************)
(* Text of the modelled upstream bodies, field values and query values     *)
(***************************************************************************)
\* "{"ip":"8.8.8.8","country":"US","country_name":"United States","latitude":"37.386","longitude":"-122.0838","org":"Google LLC"}"
T_CoOk ==
    <<"{", "\"", "i", "p", "\"", ":", "\"", "8", ".", "8", ".", "8", ".", "8", "\"", ",", "\"",
      "c", "o", "u", "n", "t", "r", "y", "\"", ":", "\"", "U", "S", "\"", ",", "\"", "c", "o", "u",
      "n", "t", "r", "y", "_", "n", "a", "m", "e", "\"", ":", "\"", "U", "n", "i", "t", "e", "d",
      " ", "S", "t", "a", "t", "e", "s", "\"", ",", "\"", "l", "a", "t", "i", "t", "u", "d", "e",
      "\"", ":", "\"", "3", "7", ".", "3", "8", "6", "\"", ",", "\"", "l", "o", "n", "g", "i", "t",
      "u", "d", "e", "\"", ":", "\"", "-", "1", "2", "2", ".", "0", "8", "3", "8", "\"", ",", "\"",
      "o", "r", "g", "\"", ":", "\"", "G", "o", "o", "g", "l", "e", " ", "L", "L", "C", "\"", "}">>

\* "{"status":"success","query":"8.8.8.8","countryCode":"US","country":"United States","lat":37.386,"lon":-122.0838,"isp":"Google LLC"}"
T_ComOk ==
    <<"{", "\"", "s", "t", "a", "t", "u", "s", "\"", ":", "\"", "s", "u", "c", "c", "e", "s", "s",
      "\"", ",", "\"", "q", "u", "e", "r", "y", "\"", ":", "\"", "8", ".", "8", ".", "8", ".", "8",
      "\"", ",", "\"", "c", "o", "u", "n", "t", "r", "y", "C", "o", "d", "e", "\"", ":", "\"", "U",
      "S", "\"", ",", "\"", "c", "o", "u", "n", "t", "r", "y", "\"", ":", "\"", "U", "n", "i", "t",
      "e", "d", " ", "S", "t", "a", "t", "e", "s", "\"", ",", "\"", "l", "a", "t", "\"", ":", "3",
      "7", ".", "3", "8", "6", ",", "\"", "l", "o", "n", "\"", ":", "-", "1", "2", "2", ".", "0",
      "8", "3", "8", ",", "\"", "i", "s", "p", "\"", ":", "\"", "G", "o", "o", "g", "l", "e", " ",
      "L", "L", "C", "\"", "}">>

\* "{"error":true,"reason":"Reserved IP Address","reserved":true}"
T_CoReserved ==
    <<"{", "\"", "e", "r", "r", "o", "r", "\"", ":", "t", "r", "u", "e", ",", "\"", "r", "e", "a",
      "s", "o", "n", "\"", ":", "\"", "R", "e", "s", "e", "r", "v", "e", "d", " ", "I", "P", " ",
      "A", "d", "d", "r", "e", "s", "s", "\"", ",", "\"", "r", "e", "s", "e", "r", "v", "e", "d",
      "\"", ":", "t", "r", "u", "e", "}">>

\* "{"error":true,"reason":"Invalid IP Address"}"
T_CoInvalid ==
    <<"{", "\"", "e", "r", "r", "o", "r", "\"", ":", "t", "r", "u", "e", ",", "\"", "r", "e", "a",
      "s", "o", "n", "\"", ":", "\"", "I", "n", "v", "a", "l", "i", "d", " ", "I", "P", " ", "A",
      "d", "d", "r", "e", "s", "s", "\"", "}">>

\* "{"error":true,"reason":"RateLimited"}"
T_CoRate ==
    <<"{", "\"", "e", "r", "r", "o", "r", "\"", ":", "t", "r", "u", "e", ",", "\"", "r", "e", "a",
      "s", "o", "n", "\"", ":", "\"", "R", "a", "t", "e", "L", "i", "m", "i", "t", "e", "d", "\"",
      "}">>

\* "{"ip":"8.8.8.8","country":"US","country_name":"United States","region":7}"
T_CoBadRegion ==
    <<"{", "\"", "i", "p", "\"", ":", "\"", "8", ".", "8", ".", "8", ".", "8", "\"", ",", "\"",
      "c", "o", "u", "n", "t", "r", "y", "\"", ":", "\"", "U", "S", "\"", ",", "\"", "c", "o", "u",
      "n", "t", "r", "y", "_", "n", "a", "m", "e", "\"", ":", "\"", "U", "n", "i", "t", "e", "d",
      " ", "S", "t", "a", "t", "e", "s", "\"", ",", "\"", "r", "e", "g", "i", "o", "n", "\"", ":",
      "7", "}">>

\* "{"status":"fail","message":"invalid query"}"
T_ComInvalid ==
    <<"{", "\"", "s", "t", "a", "t", "u", "s", "\"", ":", "\"", "f", "a", "i", "l", "\"", ",",
      "\"", "m", "e", "s", "s", "a", "g", "e", "\"", ":", "\"", "i", "n", "v", "a", "l", "i", "d",
      " ", "q", "u", "e", "r", "y", "\"", "}">>

\* "{"status":"fail","message":"private range"}"
T_ComPrivate ==
    <<"{", "\"", "s", "t", "a", "t", "u", "s", "\"", ":", "\"", "f", "a", "i", "l", "\"", ",",
      "\"", "m", "e", "s", "s", "a", "g", "e", "\"", ":", "\"", "p", "r", "i", "v", "a", "t", "e",
      " ", "r", "a", "n", "g", "e", "\"", "}">>

\* "{"status":"fail","message":"not found"}"
T_ComNotFound ==
    <<"{", "\"", "s", "t", "a", "t", "u", "s", "\"", ":", "\"", "f", "a", "i", "l", "\"", ",",
      "\"", "m", "e", "s", "s", "a", "g", "e", "\"", ":", "\"", "n", "o", "t", " ", "f", "o", "u",
      "n", "d", "\"", "}">>

\* "Internal Server Error"
T_Plain ==
    <<"I", "n", "t", "e", "r", "n", "a", "l", " ", "S", "e", "r", "v", "e", "r", " ", "E", "r",
      "r", "o", "r">>

\* "[]"
T_List ==
    <<"[", "]">>

\* "Expecting value: line 1 column 1 (char 0)"
T_JsonErr ==
    <<"E", "x", "p", "e", "c", "t", "i", "n", "g", " ", "v", "a", "l", "u", "e", ":", " ", "l",
      "i", "n", "e", " ", "1", " ", "c", "o", "l", "u", "m", "n", " ", "1", " ", "(", "c", "h",
      "a", "r", " ", "0", ")">>

\* "8.8.8.8"
V_8888 ==
    <<"8", ".", "8", ".", "8", ".", "8">>

\* "127.0.0.1"
V_127001 ==
    <<"1", "2", "7", ".", "0", ".", "0", ".", "1">>

\* "US"
V_US ==
    <<"U", "S">>

\* "United States"
V_UnitedStates ==
    <<"U", "n", "i", "t", "e", "d", " ", "S", "t", "a", "t", "e", "s">>

\* "Google LLC"
V_GoogleLLC ==
    <<"G", "o", "o", "g", "l", "e", " ", "L", "L", "C">>

\* "37.386"
V_37_386 ==
    <<"3", "7", ".", "3", "8", "6">>

\* "-122.0838"
V_m122_0838 ==
    <<"-", "1", "2", "2", ".", "0", "8", "3", "8">>

\* "Reserved IP Address"
V_ReservedIPAddress ==
    <<"R", "e", "s", "e", "r", "v", "e", "d", " ", "I", "P", " ", "A", "d", "d", "r", "e", "s", "s">>

\* "Invalid IP Address"
V_InvalidIPAddress ==
    <<"I", "n", "v", "a", "l", "i", "d", " ", "I", "P", " ", "A", "d", "d", "r", "e", "s", "s">>

\* "RateLimited"
V_RateLimited ==
    <<"R", "a", "t", "e", "L", "i", "m", "i", "t", "e", "d">>

\* "fail"
V_fail ==
    <<"f", "a", "i", "l">>

\* "ConnectError"
V_ConnectError ==
    <<"C", "o", "n", "n", "e", "c", "t", "E", "r", "r", "o", "r">>

\* "ReadTimeout"
V_ReadTimeout ==
    <<"R", "e", "a", "d", "T", "i", "m", "e", "o", "u", "t">>

\* "Network failure"
V_NetworkFailure ==
    <<"N", "e", "t", "w", "o", "r", "k", " ", "f", "a", "i", "l", "u", "r", "e">>

\* "[Errno -2] Name or service not known"
V_NameNotKnown ==
    <<"[", "E", "r", "r", "n", "o", " ", "-", "2", "]", " ", "N", "a", "m", "e", " ", "o", "r",
      " ", "s", "e", "r", "v", "i", "c", "e", " ", "n", "o", "t", " ", "k", "n", "o", "w", "n">>

\* "timed out"
V_TimedOut ==
    <<"t", "i", "m", "e", "d", " ", "o", "u", "t">>

\* "{"error":true,"reason":"Invalid reserved address"}"
T_CoInvalidReserved ==
    <<"{", "\"", "e", "r", "r", "o", "r", "\"", ":", "t", "r", "u", "e", ",", "\"", "r", "e", "a",
      "s", "o", "n", "\"", ":", "\"", "I", "n", "v", "a", "l", "i", "d", " ", "r", "e", "s", "e",
      "r", "v", "e", "d", " ", "a", "d", "d", "r", "e", "s", "s", "\"", "}">>

\* "{"error":true,"reason":"Invalid IP Address","reserved":true}"
T_CoInvalidFlag ==
    <<"{", "\"", "e", "r", "r", "o", "r", "\"", ":", "t", "r", "u", "e", ",", "\"", "r", "e", "a",
      "s", "o", "n", "\"", ":", "\"", "I", "n", "v", "a", "l", "i", "d", " ", "I", "P", " ", "A",
      "d", "d", "r", "e", "s", "s", "\"", ",", "\"", "r", "e", "s", "e", "r", "v", "e", "d", "\"",
      ":", "t", "r", "u", "e", "}">>

\* "{"error":true,"reason":"Bogon","reserved":true}"
T_CoFlagOnly ==
    <<"{", "\"", "e", "r", "r", "o", "r", "\"", ":", "t", "r", "u", "e", ",", "\"", "r", "e", "a",
      "s", "o", "n", "\"", ":", "\"", "B", "o", "g", "o", "n", "\"", ",", "\"", "r", "e", "s", "e",
      "r", "v", "e", "d", "\"", ":", "t", "r", "u", "e", "}">>

\* "{"error":true,"reason":"Quota exceeded"}"
T_CoQuota ==
    <<"{", "\"", "e", "r", "r", "o", "r", "\"", ":", "t", "r", "u", "e", ",", "\"", "r", "e", "a",
      "s", "o", "n", "\"", ":", "\"", "Q", "u", "o", "t", "a", " ", "e", "x", "c", "e", "e", "d",
      "e", "d", "\"", "}">>

\* "{"error":true,"reason":"Boom"}"
T_CoUnknown ==
    <<"{", "\"", "e", "r", "r", "o", "r", "\"", ":", "t", "r", "u", "e", ",", "\"", "r", "e", "a",
      "s", "o", "n", "\"", ":", "\"", "B", "o", "o", "m", "\"", "}">>

\* "{"error":true}"
T_CoNoReason ==
    <<"{", "\"", "e", "r", "r", "o", "r", "\"", ":", "t", "r", "u", "e", "}">>

\* "{"ip":"8.8.8.8","latitude":"
T_CoHugeLatHead ==
    <<"{", "\"", "i", "p", "\"", ":", "\"", "8", ".", "8", ".", "8", ".", "8", "\"", ",", "\"",
      "l", "a", "t", "i", "t", "u", "d", "e", "\"", ":">>

\* "{"ip":"8.8.8.8","latitude":true,"longitude":[1]}"
T_CoOddLat ==
    <<"{", "\"", "i", "p", "\"", ":", "\"", "8", ".", "8", ".", "8", ".", "8", "\"", ",", "\"",
      "l", "a", "t", "i", "t", "u", "d", "e", "\"", ":", "t", "r", "u", "e", ",", "\"", "l", "o",
      "n", "g", "i", "t", "u", "d", "e", "\"", ":", "[", "1", "]", "}">>

\* "{"status":"fail","message":"Invalid reserved range"}"
T_ComInvalidReserved ==
    <<"{", "\"", "s", "t", "a", "t", "u", "s", "\"", ":", "\"", "f", "a", "i", "l", "\"", ",",
      "\"", "m", "e", "s", "s", "a", "g", "e", "\"", ":", "\"", "I", "n", "v", "a", "l", "i", "d",
      " ", "r", "e", "s", "e", "r", "v", "e", "d", " ", "r", "a", "n", "g", "e", "\"", "}">>

\* "{"status":"fail","message":"limit not found"}"
T_ComLimitNotFound ==
    <<"{", "\"", "s", "t", "a", "t", "u", "s", "\"", ":", "\"", "f", "a", "i", "l", "\"", ",",
      "\"", "m", "e", "s", "s", "a", "g", "e", "\"", ":", "\"", "l", "i", "m", "i", "t", " ", "n",
      "o", "t", " ", "f", "o", "u", "n", "d", "\"", "}">>

\* "{"status":"fail","message":"Boom"}"
T_ComUnknown ==
    <<"{", "\"", "s", "t", "a", "t", "u", "s", "\"", ":", "\"", "f", "a", "i", "l", "\"", ",",
      "\"", "m", "e", "s", "s", "a", "g", "e", "\"", ":", "\"", "B", "o", "o", "m", "\"", "}">>

\* "{}"
T_ComNoStatus ==
    <<"{", "}">>

\* "{"status":"fail","message":""}"
T_ComEmptyMsg ==
    <<"{", "\"", "s", "t", "a", "t", "u", "s", "\"", ":", "\"", "f", "a", "i", "l", "\"", ",",
      "\"", "m", "e", "s", "s", "a", "g", "e", "\"", ":", "\"", "\"", "}">>

\* "{"status":"FAIL","message":"RESERVED RANGE"}"
T_ComUpper ==
    <<"{", "\"", "s", "t", "a", "t", "u", "s", "\"", ":", "\"", "F", "A", "I", "L", "\"", ",",
      "\"", "m", "e", "s", "s", "a", "g", "e", "\"", ":", "\"", "R", "E", "S", "E", "R", "V", "E",
      "D", " ", "R", "A", "N", "G", "E", "\"", "}">>

\* "{"status":"success","query":"8.8.8.8","lat":"abc","lon":{}}"
T_ComOddLat ==
    <<"{", "\"", "s", "t", "a", "t", "u", "s", "\"", ":", "\"", "s", "u", "c", "c", "e", "s", "s",
      "\"", ",", "\"", "q", "u", "e", "r", "y", "\"", ":", "\"", "8", ".", "8", ".", "8", ".", "8",
      "\"", ",", "\"", "l", "a", "t", "\"", ":", "\"", "a", "b", "c", "\"", ",", "\"", "l", "o",
      "n", "\"", ":", "{", "}", "}">>

\* "Invalid reserved address"
V_InvalidReservedAddress ==
    <<"I", "n", "v", "a", "l", "i", "d", " ", "r", "e", "s", "e", "r", "v", "e", "d", " ", "a",
      "d", "d", "r", "e", "s", "s">>

\* "Bogon"
V_Bogon ==
    <<"B", "o", "g", "o", "n">>

\* "Quota exceeded"
V_QuotaExceeded ==
    <<"Q", "u", "o", "t", "a", " ", "e", "x", "c", "e", "e", "d", "e", "d">>

\* "Boom"
V_Boom ==
    <<"B", "o", "o", "m">>

\* "Invalid reserved range"
V_InvalidReservedRange ==
    <<"I", "n", "v", "a", "l", "i", "d", " ", "r", "e", "s", "e", "r", "v", "e", "d", " ", "r",
      "a", "n", "g", "e">>

\* "limit not found"
V_LimitNotFound ==
    <<"l", "i", "m", "i", "t", " ", "n", "o", "t", " ", "f", "o", "u", "n", "d">>

\* "FAIL"
V_FAIL ==
    <<"F", "A", "I", "L">>

\* "RESERVED RANGE"
V_RESERVED_RANGE ==
    <<"R", "E", "S", "E", "R", "V", "E", "D", " ", "R", "A", "N", "G", "E">>

\* "abc"
V_abc ==
    <<"a", "b", "c">>

\* "{"error":false,"ip":null,"country":"US","city":"Mountain View","postal":"94043"}"
T_CoNullIp ==
    <<"{", "\"", "e", "r", "r", "o", "r", "\"", ":", "f", "a", "l", "s", "e", ",", "\"", "i", "p",
      "\"", ":", "n", "u", "l", "l", ",", "\"", "c", "o", "u", "n", "t", "r", "y", "\"", ":", "\"",
      "U", "S", "\"", ",", "\"", "c", "i", "t", "y", "\"", ":", "\"", "M", "o", "u", "n", "t", "a",
      "i", "n", " ", "V", "i", "e", "w", "\"", ",", "\"", "p", "o", "s", "t", "a", "l", "\"", ":",
      "\"", "9", "4", "0", "4", "3", "\"", "}">>

\* "{"ip":"127.0.0.1","reason":"Reserved IP Address","reserved":true}"
T_CoNoFlagReserved ==
    <<"{", "\"", "i", "p", "\"", ":", "\"", "1", "2", "7", ".", "0", ".", "0", ".", "1", "\"", ",",
      "\"", "r", "e", "a", "s", "o", "n", "\"", ":", "\"", "R", "e", "s", "e", "r", "v", "e", "d",
      " ", "I", "P", " ", "A", "d", "d", "r", "e", "s", "s", "\"", ",", "\"", "r", "e", "s", "e",
      "r", "v", "e", "d", "\"", ":", "t", "r", "u", "e", "}">>

\* "{"status":"success","query":"8.8.8.8","countryCode":"US","country":"United States","regionName":"California","region":"CA","city":"Mountain View","zip":"94043","lat":37.386,"lon":-122.0838,"timezone":"America/Los_Angeles","isp":"Google LLC","org":"AS15169 Google LLC"}"
T_ComFull ==
    <<"{", "\"", "s", "t", "a", "t", "u", "s", "\"", ":", "\"", "s", "u", "c", "c", "e", "s", "s",
      "\"", ",", "\"", "q", "u", "e", "r", "y", "\"", ":", "\"", "8", ".", "8", ".", "8", ".", "8",
      "\"", ",", "\"", "c", "o", "u", "n", "t", "r", "y", "C", "o", "d", "e", "\"", ":", "\"", "U",
      "S", "\"", ",", "\"", "c", "o", "u", "n", "t", "r", "y", "\"", ":", "\"", "U", "n", "i", "t",
      "e", "d", " ", "S", "t", "a", "t", "e", "s", "\"", ",", "\"", "r", "e", "g", "i", "o", "n",
      "N", "a", "m", "e", "\"", ":", "\"", "C", "a", "l", "i", "f", "o", "r", "n", "i", "a", "\"",
      ",", "\"", "r", "e", "g", "i", "o", "n", "\"", ":", "\"", "C", "A", "\"", ",", "\"", "c",
      "i", "t", "y", "\"", ":", "\"", "M", "o", "u", "n", "t", "a", "i", "n", " ", "V", "i", "e",
      "w", "\"", ",", "\"", "z", "i", "p", "\"", ":", "\"", "9", "4", "0", "4", "3", "\"", ",",
      "\"", "l", "a", "t", "\"", ":", "3", "7", ".", "3", "8", "6", ",", "\"", "l", "o", "n", "\"",
      ":", "-", "1", "2", "2", ".", "0", "8", "3", "8", ",", "\"", "t", "i", "m", "e", "z", "o",
      "n", "e", "\"", ":", "\"", "A", "m", "e", "r", "i", "c", "a", "/", "L", "o", "s", "_", "A",
      "n", "g", "e", "l", "e", "s", "\"", ",", "\"", "i", "s", "p", "\"", ":", "\"", "G", "o", "o",
      "g", "l", "e", " ", "L", "L", "C", "\"", ",", "\"", "o", "r", "g", "\"", ":", "\"", "A", "S",
      "1", "5", "1", "6", "9", " ", "G", "o", "o", "g", "l", "e", " ", "L", "L", "C", "\"", "}">>

\* "{"status":"success","query":"8.8.8.8","region":"CA","org":"Google LLC"}"
T_ComFallback ==
    <<"{", "\"", "s", "t", "a", "t", "u", "s", "\"", ":", "\"", "s", "u", "c", "c", "e", "s", "s",
      "\"", ",", "\"", "q", "u", "e", "r", "y", "\"", ":", "\"", "8", ".", "8", ".", "8", ".", "8",
      "\"", ",", "\"", "r", "e", "g", "i", "o", "n", "\"", ":", "\"", "C", "A", "\"", ",", "\"",
      "o", "r", "g", "\"", ":", "\"", "G", "o", "o", "g", "l", "e", " ", "L", "L", "C", "\"", "}">>

\* "{"status":"success","query":"8.8.8.8","regionName":"","region":"CA","zip":"","isp":"","org":"Google LLC"}"
T_ComEmptyIsp ==
    <<"{", "\"", "s", "t", "a", "t", "u", "s", "\"", ":", "\"", "s", "u", "c", "c", "e", "s", "s",
      "\"", ",", "\"", "q", "u", "e", "r", "y", "\"", ":", "\"", "8", ".", "8", ".", "8", ".", "8",
      "\"", ",", "\"", "r", "e", "g", "i", "o", "n", "N", "a", "m", "e", "\"", ":", "\"", "\"",
      ",", "\"", "r", "e", "g", "i", "o", "n", "\"", ":", "\"", "C", "A", "\"", ",", "\"", "z",
      "i", "p", "\"", ":", "\"", "\"", ",", "\"", "i", "s", "p", "\"", ":", "\"", "\"", ",", "\"",
      "o", "r", "g", "\"", ":", "\"", "G", "o", "o", "g", "l", "e", " ", "L", "L", "C", "\"", "}">>

\* "Mountain View"
V_MountainView ==
    <<"M", "o", "u", "n", "t", "a", "i", "n", " ", "V", "i", "e", "w">>

\* "94043"
V_94043 ==
    <<"9", "4", "0", "4", "3">>

\* "California"
V_California ==
    <<"C", "a", "l", "i", "f", "o", "r", "n", "i", "a">>

\* "CA"
V_CA ==
    <<"C", "A">>

\* "America/Los_Angeles"
V_LosAngeles ==
    <<"A", "m", "e", "r", "i", "c", "a", "/", "L", "o", "s", "_", "A", "n", "g", "e", "l", "e", "s">>

\* "AS15169 Google LLC"
V_AS15169 ==
    <<"A", "S", "1", "5", "1", "6", "9", " ", "G", "o", "o", "g", "l", "e", " ", "L", "L", "C">>

\* "1" and FloatMaxExp10 + 1 zeros: 10^309
V_HugeInt == <<"1">> \o [i \in 1..(FloatMaxExp10 + 1) |-> "0"]

\* "999.999.999.999"
Q_999 ==
    <<"9", "9", "9", ".", "9", "9", "9", ".", "9", "9", "9", ".", "9", "9", "9">>

\* "qwerty"
Q_qwerty ==
    <<"q", "w", "e", "r", "t", "y">>

\* "2001:4860:4860::8888"
Q_v6 ==
    <<"2", "0", "0", "1", ":", "4", "8", "6", "0", ":", "4", "8", "6", "0", ":", ":", "8", "8",
      "8", "8">>

\* " 8.8.8.8 "
Q_padded ==
    <<" ", "8", ".", "8", ".", "8", ".", "8", " ">>

\* "   "
Q_blank ==
    <<" ", " ", " ">>

\* "01.1.1.1"
Q_leadzero ==
    <<"0", "1", ".", "1", ".", "1", ".", "1">>

\* "::ffff:8.8.8.8"
Q_v4mapped ==
    <<":", ":", "f", "f", "f", "f", ":", "8", ".", "8", ".", "8", ".", "8">>

(***************************************************************************)
(* Upstream replies                                                        *)
(***************************************************************************)
NoDict == [k \in {} |-> JNull]

NoExc == [name |-> "", cls |-> <<>>, desc |-> <<>>, base |-> ""]

\* a response body: its raw text and what response.json() makes of it
\* ("invalid": raises ValueError with message jsonErr; "dict": the dict d;
\* "other": valid JSON that is not an object)
Body(text, json, jsonErr, d) == [text |-> text, json |-> json, jsonErr |-> jsonErr, d |-> d]

BodyCoOk ==
    Body(T_CoOk, "dict", <<>>,
         [ip |-> JStr(V_8888), country |-> JStr(V_US), country_name |-> JStr(V_UnitedStates),
          latitude |-> JStr(V_37_386), longitude |-> JStr(V_m122_0838), org |-> JStr(V_GoogleLLC)])

BodyComOk ==
    Body(T_ComOk, "dict", <<>>,
         [status |-> JStr(N_success), query |-> JStr(V_8888), countryCode |-> JStr(V_US),
          country |-> JStr(V_UnitedStates), lat |-> JFloat(373860000), lon |-> JFloat(-1220838000),
          isp |-> JStr(V_GoogleLLC)])

BodyCoReserved ==
    Body(T_CoReserved, "dict", <<>>,
         [error |-> JBool(TRUE), reason |-> JStr(V_ReservedIPAddress), reserved |-> JBool(TRUE)])

BodyCoInvalid ==
    Body(T_CoInvalid, "dict", <<>>, [error |-> JBool(TRUE), reason |-> JStr(V_InvalidIPAddress)])

BodyCoRate ==
    Body(T_CoRate, "dict", <<>>, [error |-> JBool(TRUE), reason |-> JStr(V_RateLimited)])

BodyCoBadRegion ==
    Body(T_CoBadRegion, "dict", <<>>,
         [ip |-> JStr(V_8888), country |-> JStr(V_US), country_name |-> JStr(V_UnitedStates),
          region |-> JInt(7)])

BodyComInvalid ==
    Body(T_ComInvalid, "dict", <<>>, [status |-> JStr(V_fail), message |-> JStr(N_invalid_query)])

BodyComPrivate ==
    Body(T_ComPrivate, "dict", <<>>, [status |-> JStr(V_fail), message |-> JStr(N_private_range)])

BodyComNotFound ==
    Body(T_ComNotFound, "dict", <<>>, [status |-> JStr(V_fail), message |-> JStr(N_not_found)])

BodyPlain == Body(T_Plain, "invalid", T_JsonErr, NoDict)

BodyEmpty == Body(<<>>, "invalid", T_JsonErr, NoDict)

BodyList == Body(T_List, "other", <<>>, NoDict)

\* ipapi.co error bodies for the order of the classification rules
BodyCoInvalidReserved ==
    Body(T_CoInvalidReserved, "dict", <<>>,
         [error |-> JBool(TRUE), reason |-> JStr(V_InvalidReservedAddress)])

BodyCoInvalidFlag ==
    Body(T_CoInvalidFlag, "dict", <<>>,
         [error |-> JBool(TRUE), reason |-> JStr(V_InvalidIPAddress), reserved |-> JBool(TRUE)])

BodyCoFlagOnly ==
    Body(T_CoFlagOnly, "dict", <<>>,
         [error |-> JBool(TRUE), reason |-> JStr(V_Bogon), reserved |-> JBool(TRUE)])

BodyCoQuota ==
    Body(T_CoQuota, "dict", <<>>, [error |-> JBool(TRUE), reason |-> JStr(V_QuotaExceeded)])

BodyCoUnknown ==
    Body(T_CoUnknown, "dict", <<>>, [error |-> JBool(TRUE), reason |-> JStr(V_Boom)])

BodyCoNoReason == Body(T_CoNoReason, "dict", <<>>, [error |-> JBool(TRUE)])

\* latitude values of every kind
BodyCoHugeLat ==
    Body(T_CoHugeLatHead \o V_HugeInt \o <<"}">>, "dict", <<>>,
         [ip |-> JStr(V_8888), latitude |-> JBigInt(V_HugeInt)])

BodyCoOddLat ==
    Body(T_CoOddLat, "dict", <<>>,
         [ip |-> JStr(V_8888), latitude |-> JBool(TRUE), longitude |-> JList(1)])

\* ip-api.com failure bodies for the order of the classification rules
BodyComInvalidReserved ==
    Body(T_ComInvalidReserved, "dict", <<>>,
         [status |-> JStr(V_fail), message |-> JStr(V_InvalidReservedRange)])

BodyComLimitNotFound ==
    Body(T_ComLimitNotFound, "dict", <<>>,
         [status |-> JStr(V_fail), message |-> JStr(V_LimitNotFound)])

BodyComUnknown ==
    Body(T_ComUnknown, "dict", <<>>, [status |-> JStr(V_fail), message |-> JStr(V_Boom)])

BodyComNoStatus == Body(T_ComNoStatus, "dict", <<>>, NoDict)

BodyComEmptyMsg ==
    Body(T_ComEmptyMsg, "dict", <<>>, [status |-> JStr(V_fail), message |-> JStr(<<>>)])

BodyComUpper ==
    Body(T_ComUpper, "dict", <<>>, [status |-> JStr(V_FAIL), message |-> JStr(V_RESERVED_RANGE)])

BodyComOddLat ==
    Body(T_ComOddLat, "dict", <<>>,
         [status |-> JStr(N_success), query |-> JStr(V_8888), lat |-> JStr(V_abc), lon |-> JDict(0)])

\* ipapi.co bodies without a set error flag
BodyCoNullIp ==
    Body(T_CoNullIp, "dict", <<>>,
         [error |-> JBool(FALSE), ip |-> JNull, country |-> JStr(V_US),
          city |-> JStr(V_MountainView), postal |-> JStr(V_94043)])

BodyCoNoFlagReserved ==
    Body(T_CoNoFlagReserved, "dict", <<>>,
         [ip |-> JStr(V_127001), reason |-> JStr(V_ReservedIPAddress), reserved |-> JBool(TRUE)])

\* ip-api.com success bodies: every field, the fallback fields only, and
\* empty strings in the first-choice fields
BodyComFull ==
    Body(T_ComFull, "dict", <<>>,
         [status |-> JStr(N_success), query |-> JStr(V_8888), countryCode |-> JStr(V_US),
          country |-> JStr(V_UnitedStates), regionName |-> JStr(V_California), region |-> JStr(V_CA),
          city |-> JStr(V_MountainView), zip |-> JStr(V_94043), lat |-> JFloat(373860000),
          lon |-> JFloat(-1220838000), timezone |-> JStr(V_LosAngeles), isp |-> JStr(V_GoogleLLC),
          org |-> JStr(V_AS15169)])

BodyComFallback ==
    Body(T_ComFallback, "dict", <<>>,
         [status |-> JStr(N_success), query |-> JStr(V_8888), region |-> JStr(V_CA),
          org |-> JStr(V_GoogleLLC)])

BodyComEmptyIsp ==
    Body(T_ComEmptyIsp, "dict", <<>>,
         [status |-> JStr(N_success), query |-> JStr(V_8888), regionName |-> JStr(<<>>),
          region |-> JStr(V_CA), zip |-> JStr(<<>>), isp |-> JStr(<<>>), org |-> JStr(V_GoogleLLC)])

Bodies ==
    {BodyCoOk, BodyComOk, BodyCoReserved, BodyCoInvalid, BodyCoRate, BodyCoBadRegion,
     BodyComInvalid, BodyComPrivate, BodyComNotFound, BodyPlain, BodyEmpty, BodyList,
     BodyCoInvalidReserved, BodyCoInvalidFlag, BodyCoFlagOnly, BodyCoQuota, BodyCoUnknown,
     BodyCoNoReason, BodyCoHugeLat, BodyCoOddLat, BodyComInvalidReserved, BodyComLimitNotFound,
     BodyComUnknown, BodyComNoStatus, BodyComEmptyMsg, BodyComUpper, BodyComOddLat,
     BodyCoNullIp, BodyCoNoFlagReserved, BodyComFull, BodyComFallback, BodyComEmptyIsp}

Statuses == {200, 201, 202, 204, 302, 400, 401, 403, 404, 405, 418, 429, 500, 503}

\* transport failures of client.get: connection refused, DNS, timeout
TransportErrors ==
    {[name |-> "ConnectError", cls |-> V_ConnectError, desc |-> V_NetworkFailure, base |-> "RequestError"],
     [name |-> "ConnectError", cls |-> V_ConnectError, desc |-> V_NameNotKnown, base |-> "RequestError"],
     [name |-> "ReadTimeout", cls |-> V_ReadTimeout, desc |-> V_TimedOut, base |-> "RequestError"]}

HttpReply(status, body) ==
    [failed |-> FALSE, exc |-> NoExc, status |-> status, text |-> body.text,
     json |-> body.json, jsonErr |-> body.jsonErr, d |-> body.d]

FailedReply(e) ==
    [failed |-> TRUE, exc |-> e, status |-> 0, text |-> <<>>,
     json |-> "invalid", jsonErr |-> <<>>, d |-> NoDict]

NoReply == FailedReply(NoExc)

\* the ways the outbound GET can fail, and the responses it can bring
FailedReplies == {FailedReply(e) : e \in TransportErrors}

HttpReplies == {HttpReply(s, b) : s \in Statuses, b \in Bodies}

(***************************************************************************)
(* Request validation (IPLookupRequest._validate_ip)                       *)
(***************************************************************************)
\* an ip query value: absent (None) or a string
NoIp == [present |-> FALSE, s |-> <<>>]

Ip(s) == [present |-> TRUE, s |-> s]

\* _validate_ip without the ip_address check: every non-blank value passes
ValidateIpNoParse(value) ==
    IF ~value.present THEN [ok |-> TRUE, ip |-> NoIp]
    ELSE LET value_str == Strip(value.s)
         IN  IF value_str = <<>> THEN [ok |-> TRUE, ip |-> NoIp]
             ELSE [ok |-> TRUE, ip |-> Ip(value_str)]

\* _validate_ip without the blank check: a blank value goes to ip_address
ValidateIpNoBlank(value) ==
    IF ~value.present THEN [ok |-> TRUE, ip |-> NoIp]
    ELSE LET value_str == Strip(value.s)
         IN  IF ~ip_address(value_str) THEN [ok |-> FALSE, ip |-> NoIp]
             ELSE [ok |-> TRUE, ip |-> Ip(value_str)]

\* _validate_ip returning the value as given instead of the trimmed value_str
ValidateIpUntrimmed(value) ==
    IF ~value.present THEN [ok |-> TRUE, ip |-> NoIp]
    ELSE LET value_str == Strip(value.s)
         IN  IF value_str = <<>> THEN [ok |-> TRUE, ip |-> NoIp]
             ELSE IF ~ip_address(value_str) THEN [ok |-> FALSE, ip |-> NoIp]
             ELSE [ok |-> TRUE, ip |-> Ip(value.s)]

\* ok = FALSE: the validator raises ValueError (ip_address raises a plain
\* ValueError, which leaves the validator as it is), which pydantic reports
\* as a ValidationError located at the field ip
_validate_ip(value) ==
    IF ~value.present THEN [ok |-> TRUE, ip |-> NoIp]
    ELSE LET value_str == Strip(value.s)
         IN  IF value_str = <<>> THEN [ok |-> TRUE, ip |-> NoIp]
             ELSE IF ~ip_address(value_str) THEN [ok |-> FALSE, ip |-> NoIp]
             ELSE [ok |-> TRUE, ip |-> Ip(value_str)]

(***************************************************************************)
(* GET /v1/ip/lookup (src/main.py)                                         *)
(***************************************************************************)
\* an outward response; shape tells how the body is laid out:
\*   "record"  the IPLookupResponse fields at top level
\*   "detail"  {"detail": {"code", "message"}} (HTTPException)
\*   "flat"    {"code", "message"}
Response(status, shape, code, message, rec) ==
    [status |-> status, shape |-> shape, code |-> code, message |-> message, rec |-> rec]

NoResponse == Response(0, "none", "", <<>>, NoRec)

\* get_ipapi_client
get_ipapi_client == "IpapiClient"

\* _build_validation_error_payload: invalid_ip when some error is located
\* at ip, invalid_request otherwise
_build_validation_error_payload(locs) ==
    IF \E i \in 1..Len(locs) : locs[i] = "ip"
    THEN [code |-> "invalid_ip", message |-> MSG_VALIDATION_IP]
    ELSE [code |-> "invalid_request", message |-> MSG_VALIDATION]

\* the exception handlers registered on the app, for an exception that
\* leaves the endpoint or its dependencies
AppExceptionHandler(exc) ==
    IF exc.kind = "ValidationError"
    THEN LET payload == _build_validation_error_payload(exc.locs)
         IN  Response(400, "flat", payload.code, payload.message, NoRec)
    ELSE Response(500, "flat", "internal_error", MSG_INTERNAL, NoRec)

ResponseFields ==
    <<"ip", "country", "country_name", "region", "city", "postal_code",
      "latitude", "longitude", "timezone", "isp">>

\* the first attribute the handler reads that the record does not have
MissingAttr(rec) == SelectSeq(ResponseFields, LAMBDA f : f \notin DOMAIN rec)

\* the except clauses with IpNotFoundError answered like UpstreamServiceError
HandlerCatchNotFoundAs502(exc) ==
    IF exc.origin = "src.ipapi_client" /\ exc.kind = "InvalidIpError"
    THEN Response(400, "detail", "invalid_ip", exc.msg, NoRec)
    ELSE IF exc.origin = "src.ipapi_client" /\ exc.kind \in {"IpNotFoundError", "UpstreamServiceError"}
    THEN Response(502, "detail", "upstream_error", exc.msg, NoRec)
    ELSE AppExceptionHandler(exc)

\* the except clauses of ip_lookup: the three classes imported from
\* src.ipapi_client
HandlerCatch(exc) ==
    IF exc.origin = "src.ipapi_client" /\ exc.kind = "InvalidIpError"
    THEN Response(400, "detail", "invalid_ip", exc.msg, NoRec)
    ELSE IF exc.origin = "src.ipapi_client" /\ exc.kind = "IpNotFoundError"
    THEN Response(404, "detail", "ip_not_found", exc.msg, NoRec)
    ELSE IF exc.origin = "src.ipapi_client" /\ exc.kind = "UpstreamServiceError"
    THEN Response(502, "detail", "upstream_error", exc.msg, NoRec)
    ELSE AppExceptionHandler(exc)

\* ip_lookup from the return of the client call to the response
ip_lookup_finish(res) ==
    IF res.kind = "record"
    THEN IF MissingAttr(res.rec) # <<>>
         THEN AppExceptionHandler(Raise("AttributeError", "builtins", <<>>))
         ELSE Response(200, "record", "", <<>>,
                       [f \in {ResponseFields[i] : i \in 1..Len(ResponseFields)} |-> res.rec[f]])
    ELSE HandlerCatch(res)

\* ip_lookup: if ip: ... else: ...
HandlerOp(ip) == IF ip.present /\ ip.s # <<>> THEN "lookup_ip" ELSE "lookup_client_ip"

\* a _request that tries once more after a failed attempt
RetryAfterFailure(res, g) == res.kind = "UpstreamServiceError" /\ g < 2

\* _request awaits one client.get(url) and raises on failure: no loop
RetryAfter(res, g) == FALSE

(***************************************************************************)
(* Inputs                                                                  *)
(***************************************************************************)
IpAlphabet == {"1", ":", " ", "q"}

RECURSIVE StringsUpTo(_)
StringsUpTo(n) ==
    IF n = 0 THEN {<<>>}
    ELSE LET shorter == StringsUpTo(n - 1)
         IN  shorter \cup {Append(s, c) : s \in shorter, c \in IpAlphabet}

\* ip query values: absent, every string over IpAlphabet up to MaxIpLen,
\* and the literals of the documentation and tests
QueryValues ==
    {NoIp} \cup {Ip(s) : s \in StringsUpTo(MaxIpLen)}
           \cup {Ip(s) : s \in {V_8888, V_127001, Q_999, Q_qwerty, Q_v6, Q_padded, Q_blank,
                                Q_leadzero, Q_v4mapped}}

\* addresses handed to a client that is called directly
DirectIps == {V_8888, V_127001}

Clients == {"IpapiClient", "IpApiCo", "IpApiCom"}

\* class Provider: the closed enumeration of provider selectors
Provider == {"ipapi.co", "ip-api.com"}

\* provider query values: absent, the members of Provider, something else
ProviderValues == {""} \cup Provider \cup {"bogus"}

\* the upstream a client talks to (the default base_url of its constructor)
ClientUpstream(c) == IF c = "IpApiCom" THEN "ip-api.com" ELSE "ipapi.co"

\* the top-level keys of the JSON body of an outward response
ResponseKeys(resp) ==
    CASE resp.shape = "detail" -> {"detail"}
      [] resp.shape = "flat" -> {"code", "message"}
      [] resp.shape = "record" -> DOMAIN resp.rec
      [] OTHER -> {}

(***************************************************************************)
(* State                                                                   *)
(***************************************************************************)
VARIABLES
    pc,         \* "idle", "inflight" (the outbound GET is awaited), "done"
    entry,      \* "http": GET /v1/ip/lookup; "direct": a client method called by itself
    query,      \* the ip query value of the http request
    valid,      \* whether the query passed validation
    client,     \* the client that serves the call
    op,         \* the client operation invoked: "lookup_ip", "lookup_client_ip", "none"
    arg,        \* the address given to lookup_ip
    gets,       \* outbound GETs issued for this call
    reply,      \* what the outbound GET ended with
    result,     \* what the client call ended with
    response,   \* the outward response of the http request
    provider,   \* the provider query value of the http request ("": absent)
    adapter     \* the attributes of each client instance: _base_url, _timeout_seconds

vars == <<pc, entry, query, valid, client, op, arg, gets, reply, result, response, provider, adapter>>

Init ==
    /\ pc = "idle"
    /\ entry = "none"
    /\ query = NoIp
    /\ valid = FALSE
    /\ client = "none"
    /\ op = "none"
    /\ arg = <<>>
    /\ gets = 0
    /\ reply = NoReply
    /\ result = Pass
    /\ response = NoResponse
    /\ provider = ""
    /\ adapter = [c \in Clients |-> __init__(c)]

\* GET /v1/ip/lookup arrives with a query that fails validation: the
\* ValidationError of dependency resolution is answered by the app's handler.
\* The IPLookupRequest of main.py declares ip only, so that the provider
\* query value p is not looked at
HttpRejected(q, p) ==
    /\ pc = "idle"
    /\ ~_validate_ip(q).ok
    /\ provider' = p
    /\ pc' = "done"
    /\ entry' = "http"
    /\ query' = q
    /\ valid' = FALSE
    /\ response' = AppExceptionHandler(
                       [kind |-> "ValidationError", origin |-> "pydantic", msg |-> <<>>,
                        locs |-> <<"ip">>, rec |-> NoRec])
    /\ UNCHANGED <<client, op, arg, gets, reply, result, adapter>>

\* GET /v1/ip/lookup arrives with a valid query: ip_lookup runs up to the
\* awaited client.get of the client operation it chose
HttpAccepted(q, p) ==
    /\ pc = "idle"
    /\ _validate_ip(q).ok
    /\ provider' = p
    /\ LET ip == _validate_ip(q).ip
       IN  /\ op' = HandlerOp(ip)
           /\ arg' = IF HandlerOp(ip) = "lookup_ip" THEN ip.s ELSE <<>>
    /\ pc' = "inflight"
    /\ entry' = "http"
    /\ query' = q
    /\ valid' = TRUE
    /\ client' = get_ipapi_client
    /\ gets' = gets + 1
    /\ UNCHANGED <<reply, result, response, adapter>>

\* lookup_ip / get_geolocation_for_ip called on a client, up to the awaited GET
DirectLookupIp(c, ip) ==
    /\ pc = "idle"
    /\ pc' = "inflight"
    /\ entry' = "direct"
    /\ client' = c
    /\ op' = "lookup_ip"
    /\ arg' = ip
    /\ gets' = gets + 1
    /\ UNCHANGED <<query, valid, reply, result, response, provider, adapter>>

\* lookup_client_ip / get_geolocation_for_client_ip, up to the awaited GET
DirectLookupClientIp(c) ==
    /\ pc = "idle"
    /\ pc' = "inflight"
    /\ entry' = "direct"
    /\ client' = c
    /\ op' = "lookup_client_ip"
    /\ arg' = <<>>
    /\ gets' = gets + 1
    /\ UNCHANGED <<query, valid, reply, result, response, provider, adapter>>

\* the awaited GET has ended with r: the rest of _request and, for an http
\* request, the rest of ip_lookup
Complete(r) ==
    /\ pc = "inflight"
    /\ LET res == Outcome(client, op, arg, r)
       IN  IF RetryAfter(res, gets)
           THEN /\ gets' = gets + 1
                /\ UNCHANGED <<pc, reply, result, response>>
           ELSE /\ pc' = "done"
                /\ reply' = r
                /\ result' = res
                /\ response' = IF entry = "http" THEN ip_lookup_finish(res) ELSE NoResponse
                /\ UNCHANGED gets
    /\ UNCHANGED <<entry, query, valid, client, op, arg, provider, adapter>>

\* the outbound GET fails in transport
TransportFails(r) == r.failed /\ Complete(r)

\* the upstream answers the outbound GET
UpstreamResponds(r) == ~r.failed /\ Complete(r)

\* the call is over; the next one starts from a clean slate
Reset ==
    /\ pc = "done"
    /\ pc' = "idle"
    /\ entry' = "none"
    /\ query' = NoIp
    /\ valid' = FALSE
    /\ client' = "none"
    /\ op' = "none"
    /\ arg' = <<>>
    /\ gets' = 0
    /\ reply' = NoReply
    /\ result' = Pass
    /\ response' = NoResponse
    /\ provider' = ""
    /\ UNCHANGED adapter

Next ==
    \/ \E q \in QueryValues, p \in ProviderValues : HttpRejected(q, p)
    \/ \E q \in QueryValues, p \in ProviderValues : HttpAccepted(q, p)
    \/ \E c \in Clients, ip \in DirectIps : DirectLookupIp(c, ip)
    \/ \E c \in Clients : DirectLookupClientIp(c)
    \/ \E r \in FailedReplies : TransportFails(r)
    \/ \E r \in HttpReplies : UpstreamResponds(r)
    \/ Reset

Spec == Init /\ [][Next]_vars

(***************************************************************************)
(* Properties                                                              *)
(***************************************************************************)
\* the http request has been answered
Answered == pc = "done" /\ entry = "http"

\* a client call (made by the handler or directly) has ended
CallEnded == pc = "done" /\ (entry = "direct" \/ valid)

Adapters == {"IpApiCo", "IpApiCom"}

\* C1: when the client call made by the handler fails with InvalidIpError,
\* IpNotFoundError or UpstreamServiceError, the response is 400/invalid_ip,
\* 404/ip_not_found, 502/upstream_error respectively, and its message is the
\* error's own text.
C1_ErrorKindsMapped ==
    (Answered /\ valid /\ result.kind \in {"InvalidIpError", "IpNotFoundError", "UpstreamServiceError"})
        => /\ response.message = result.msg
           /\ <<response.status, response.code>> =
                 CASE result.kind = "InvalidIpError" -> <<400, "invalid_ip">>
                   [] result.kind = "IpNotFoundError" -> <<404, "ip_not_found">>
                   [] OTHER -> <<502, "upstream_error">>

C1_Witness ==
    /\ Answered /\ valid
    /\ result.kind = "IpNotFoundError"
    /\ response.status = 404 /\ response.code = "ip_not_found"
    /\ response.message = MSG_NOT_FOUND

\* the upstream reports the address as reserved, the way ipapi.co does
UpstreamReportsReserved ==
    /\ ~reply.failed
    /\ reply.status = 200
    /\ reply.json = "dict"
    /\ reply.d = BodyCoReserved.d

\* C2: when the upstream reports the address as reserved, the lookup fails
\* with ReservedIpError and the handler answers 400 with code reserved_ip.
C2_ReservedIsReservedIp ==
    (Answered /\ valid /\ UpstreamReportsReserved)
        => /\ result.kind = "ReservedIpError"
           /\ response.status = 400
           /\ response.code = "reserved_ip"

\* C3: whenever the client returns a record the handler answers 200 with the
\* record's fields and the selected provider; a successful client call never
\* ends in an error response.
C3_RecordIs200 ==
    (Answered /\ valid /\ result.kind = "record")
        => /\ response.status = 200
           /\ response.shape = "record"
           /\ \A i \in 1..Len(ResponseFields) :
                 response.rec[ResponseFields[i]] = result.rec[ResponseFields[i]]
           /\ "provider" \in DOMAIN response.rec

\* the ip query value is non-empty after trimming and its trimmed form is no
\* IPv4 or IPv6 literal
InvalidQuery(q) == q.present /\ Strip(q.s) # <<>> /\ ~ip_address(Strip(q.s))

\* C4: a request whose ip is non-empty after trimming and is not a valid
\* literal is answered 400 with code invalid_ip, and at no point of the
\* request is a client operation invoked or an outbound GET issued.
C4_InvalidIpNeverReachesClient ==
    (entry = "http" /\ InvalidQuery(query))
        => /\ pc = "done"
           /\ response.status = 400
           /\ response.code = "invalid_ip"
           /\ op = "none"
           /\ client = "none"
           /\ gets = 0

C4_Witness ==
    /\ Answered
    /\ query = Ip(Q_999)
    /\ response.status = 400 /\ response.code = "invalid_ip"
    /\ op = "none"

\* the ip query value is absent, empty or whitespace only
BlankQuery(q) == ~q.present \/ Strip(q.s) = <<>>

C6_Original ==
    entry = "http"
        => /\ (query.present /\ ip_address(query.s)) => (valid /\ op = "lookup_ip" /\ arg = query.s)
           /\ (query.present /\ query.s # <<>> /\ ~ip_address(query.s)) => ~valid

\* C6 amended: every valid literal is accepted unchanged; a string whose
\* trimmed form is non-empty and fails IP-literal parsing is rejected; a
\* string whose trimmed form is a valid literal is accepted as that trimmed
\* form, and a whitespace-only string is accepted as 'no ip'.
C6_TrimmedThenParsed ==
    entry = "http"
        => /\ (query.present /\ ip_address(query.s)) => (valid /\ op = "lookup_ip" /\ arg = query.s)
           /\ InvalidQuery(query) => ~valid
           /\ (query.present /\ ip_address(Strip(query.s)))
                 => (valid /\ op = "lookup_ip" /\ arg = Strip(query.s))
           /\ (query.present /\ Strip(query.s) = <<>>) => (valid /\ op = "lookup_client_ip")

C6_Witness ==
    /\ entry = "http"
    /\ query = Ip(Q_padded)
    /\ valid
    /\ arg = V_8888

\* C7: a request whose query passes validation has issued exactly one
\* outbound GET when it is answered, whatever the outcome; a request that
\* fails validation has issued none; the same holds for a client called
\* directly, and no call ever has more than one GET behind it.
C7_ExactlyOneGet ==
    /\ gets <= 1
    /\ pc = "inflight" => gets = 1
    /\ Answered => gets = (IF valid THEN 1 ELSE 0)
    /\ (pc = "done" /\ entry = "direct") => gets = 1

C7_Witness ==
    /\ Answered /\ valid
    /\ reply.failed
    /\ result.kind = "UpstreamServiceError"
    /\ gets = 1

\* C8: a transport failure of the outbound GET (connection, DNS, timeout)
\* makes the client call fail with UpstreamServiceError, and an http request
\* is then answered 502 with code upstream_error.
C8_TransportFailureIsUpstreamError ==
    (CallEnded /\ reply.failed)
        => /\ result.kind = "UpstreamServiceError"
           /\ entry = "http" => (response.status = 502 /\ response.code = "upstream_error")

C8_Witness ==
    /\ CallEnded /\ reply.failed
    /\ reply.exc.name = "ReadTimeout"
    /\ client = "IpApiCo"
    /\ result.kind = "UpstreamServiceError"

\* C9: in both adapters a 404 response fails with IpNotFoundError whatever
\* its body is: a body that signals success, a body that is not JSON.
C9_NotFoundBeforeBody ==
    (CallEnded /\ client \in Adapters /\ ~reply.failed /\ reply.status = 404)
        => result.kind = "IpNotFoundError"

C9_Witness ==
    /\ CallEnded /\ client = "IpApiCo"
    /\ ~reply.failed /\ reply.status = 404
    /\ reply.d = BodyCoOk.d
    /\ result.kind = "IpNotFoundError"

\* C10: in both adapters a response with status >= 500 fails with
\* UpstreamServiceError whose message contains the status code in decimal
\* and the raw body text.
C10_ServerErrorMessage ==
    (CallEnded /\ client \in Adapters /\ ~reply.failed /\ reply.status >= 500)
        => /\ result.kind = "UpstreamServiceError"
           /\ IsSubstr(DecStr(reply.status), result.msg)
           /\ IsSubstr(reply.text, result.msg)

C10_Witness ==
    /\ CallEnded /\ client = "IpApiCom"
    /\ ~reply.failed /\ reply.status = 500
    /\ reply.text = T_Plain
    /\ IsSubstr(T_Plain, result.msg)

\* the response came with a 4xx status other than 404
Is4xxNot404(r) == ~r.failed /\ r.status >= 400 /\ r.status < 500 /\ r.status # 404

\* C11: in both adapters a response with a 4xx status other than 404 fails
\* with UpstreamServiceError raised by the status check, before the body is
\* parsed: no such response yields a record or a body-derived error.
C11_Every4xxIsUpstreamError ==
    (CallEnded /\ client \in Adapters /\ Is4xxNot404(reply))
        => /\ result.kind = "UpstreamServiceError"
           /\ result = (IF client = "IpApiCo" THEN Co_handle_http_errors(reply)
                                               ELSE Com_handle_http_errors(reply))

\* C12: a request with an invalid ip or with a provider outside the
\* enumeration is a validation failure answered 400, with code invalid_ip
\* when ip is among the offending fields and invalid_request otherwise, and
\* with one of the two fixed messages.
C12_ValidationFailureIs400 ==
    (Answered /\ (InvalidQuery(query) \/ provider \notin Provider \cup {""}))
        => /\ response.status = 400
           /\ response.code = (IF InvalidQuery(query) THEN "invalid_ip" ELSE "invalid_request")
           /\ response.message = (IF InvalidQuery(query) THEN MSG_VALIDATION_IP ELSE MSG_VALIDATION)

\* C13: every 400, 404 and 502 response has a body whose top-level keys are
\* code, message and provider.
C13_FailureBodyShape ==
    (Answered /\ response.status \in {400, 404, 502})
        => ResponseKeys(response) = {"code", "message", "provider"}

\* C14: a lookup is served by the adapter of the selected provider:
\* provider=ip-api.com by the ip-api.com adapter, provider=ipapi.co or no
\* provider by the ipapi.co adapter.
C14_ServedBySelectedProvider ==
    (entry = "http" /\ valid /\ provider \in Provider \cup {""})
        => ClientUpstream(client) = (IF provider = "" THEN "ipapi.co" ELSE provider)

\* C15: every call of lookup_ip or lookup_client_ip on either adapter ends
\* in a normalized record or in one of InvalidIpError, ReservedIpError,
\* IpNotFoundError, UpstreamServiceError, whatever the upstream does; a body
\* that is no JSON object is reported as UpstreamServiceError.
C15_AdapterOutcomesClosed ==
    (CallEnded /\ client \in Adapters)
        => /\ result.kind \in {"record"} \cup ErrorKinds
           /\ (~reply.failed /\ reply.status = 200 /\ reply.json # "dict")
                 => result.kind = "UpstreamServiceError"

\* the replies that differ from r only in the raw body text of an
\* error-status response, or only in the description of the transport error
SameButRawText(r) ==
    IF r.failed THEN {FailedReply([r.exc EXCEPT !.desc = x]) : x \in {V_NetworkFailure, V_TimedOut}}
    ELSE IF r.status >= 400 THEN {[r EXCEPT !.text = x] : x \in {T_Plain, <<>>}}
    ELSE {r}

\* C16: the outward message of a failure does not depend on the raw body
\* text of an error-status response nor on the description of the transport
\* error: a reply that differs only there produces the same outward message.
C16_MessageIndependentOfRawText ==
    (Answered /\ valid /\ response.status # 200)
        => \A r2 \in SameButRawText(reply) :
              ip_lookup_finish(ClientRequest(client, r2)).message = response.message

\* the response's body reaches the classification of the adapter: the status
\* check raised nothing and the body is a JSON object
ReachesClassification(c, r) ==
    /\ ~r.failed
    /\ r.json = "dict"
    /\ (IF c = "IpApiCo" THEN Co_handle_http_errors(r) ELSE Com_handle_http_errors(r)).kind = "none"

\* the reason text of an ipapi.co error body, the message of an ip-api.com one
ReasonText(c, d) ==
    IF c = "IpApiCo"
    THEN PyStr(Or(Or(Get(d, "reason"), Get(d, "message")), JStr(MSG_UNKNOWN_CO)))
    ELSE PyStr(Or(Get(d, "message"), JStr(MSG_UNKNOWN_COM)))

\* the body signals failure: ipapi.co by a set error flag, ip-api.com by a
\* status that is missing or, compared without regard to case, not success
SignalsFailure(c, d) ==
    IF c = "IpApiCo" THEN Truthy(Get(d, "error"))
    ELSE Lower(PyStr(Or(Get(d, "status"), JStr(<<>>)))) # N_success

\* needle occurs in text, whatever the case of the letters of text
Contains(text, needle) == IsSubstr(needle, Lower(text))

\* C17: an ipapi.co body with the error flag set that reaches classification
\* fails by the first rule that matches its reason text, case-insensitively:
\* 'invalid' -> InvalidIpError; 'reserved' or reserved = true ->
\* ReservedIpError; 'ratelimited' or 'quota' -> UpstreamServiceError;
\* anything else -> UpstreamServiceError carrying the raw reason.
C17_CoClassificationOrder ==
    (CallEnded /\ client = "IpApiCo" /\ ReachesClassification(client, reply)
               /\ SignalsFailure(client, reply.d))
        => LET reason == ReasonText(client, reply.d)
           IN  IF Contains(reason, N_invalid)
               THEN result.kind = "InvalidIpError"
               ELSE IF Contains(reason, N_reserved) \/ Get(reply.d, "reserved") = JBool(TRUE)
               THEN result.kind = "ReservedIpError"
               ELSE IF Contains(reason, N_ratelimited) \/ Contains(reason, N_quota)
               THEN result.kind = "UpstreamServiceError"
               ELSE result.kind = "UpstreamServiceError" /\ result.msg = reason

C17_Witness ==
    /\ CallEnded /\ client = "IpApiCo"
    /\ ~reply.failed /\ reply.status = 200
    /\ reply.d = BodyCoInvalidFlag.d
    /\ result.kind = "InvalidIpError"

\* C18: an ip-api.com body whose status is not success fails by the first
\* rule that matches its message, case-insensitively: 'invalid' ->
\* InvalidIpError; 'private range' or 'reserved range' -> ReservedIpError;
\* 'quota' or 'limit' -> UpstreamServiceError; 'not found' ->
\* IpNotFoundError; anything else -> UpstreamServiceError carrying the raw
\* message.
C18_ComClassificationOrder ==
    (CallEnded /\ client = "IpApiCom" /\ ReachesClassification(client, reply)
               /\ SignalsFailure(client, reply.d))
        => LET message == ReasonText(client, reply.d)
           IN  IF Contains(message, N_invalid)
               THEN result.kind = "InvalidIpError"
               ELSE IF Contains(message, N_private_range) \/ Contains(message, N_reserved_range)
               THEN result.kind = "ReservedIpError"
               ELSE IF Contains(message, N_quota) \/ Contains(message, N_limit)
               THEN result.kind = "UpstreamServiceError"
               ELSE IF Contains(message, N_not_found)
               THEN result.kind = "IpNotFoundError"
               ELSE result.kind = "UpstreamServiceError" /\ result.msg = message

C18_Witness ==
    /\ CallEnded /\ client = "IpApiCom"
    /\ ~reply.failed /\ reply.status = 200
    /\ reply.d = BodyComLimitNotFound.d
    /\ result.kind = "UpstreamServiceError"

\* no classification rule of the adapter matches the text
NoRuleMatches(c, d) ==
    LET text == ReasonText(c, d)
    IN  IF c = "IpApiCo"
        THEN /\ \A n \in {N_invalid, N_reserved, N_ratelimited, N_quota} : ~Contains(text, n)
             /\ Get(d, "reserved") # JBool(TRUE)
        ELSE \A n \in {N_invalid, N_private_range, N_reserved_range, N_quota, N_limit, N_not_found} :
                ~Contains(text, n)

\* C19: in both adapters a body that signals failure never yields a
\* record: the call ends in one of the four error kinds, and when the body
\* reaches classification with a reason/message that matches no rule
\* (a missing or empty one included) it ends in UpstreamServiceError.
C19_FailureNeverYieldsRecord ==
    (CallEnded /\ client \in Adapters /\ ~reply.failed /\ reply.json = "dict"
               /\ SignalsFailure(client, reply.d))
        => /\ result.kind \in ErrorKinds
           /\ (ReachesClassification(client, reply) /\ NoRuleMatches(client, reply.d))
                 => result.kind = "UpstreamServiceError"

C19_Witness ==
    /\ CallEnded /\ client = "IpApiCom"
    /\ ~reply.failed /\ reply.status = 200
    /\ reply.d = BodyComNoStatus.d
    /\ result.kind = "UpstreamServiceError"
    /\ result.msg = MSG_UNKNOWN_COM

\* the keys the adapters read latitude and longitude from
LatLonKeys == {"latitude", "longitude", "lat", "lon"}

\* C20: latitude/longitude coercion yields, for every input value, a number
\* rounded to 6 decimal places or absent, and never raises: building a
\* record never fails because of the latitude or longitude value.
C20_LatLonCoercionTotal ==
    (CallEnded /\ client \in Adapters /\ ~reply.failed /\ reply.json = "dict")
        => /\ \A k \in LatLonKeys :
                 LET c == _coerce_lat_lon(Get(reply.d, k))
                 IN  c = JNull \/ (c.t = "float" /\ c.n % 10 = 0)
           /\ result.kind # "OverflowError"

\* a required field of the record: the source value, the empty string for a
\* missing or null one
Required(v) == IF v = JNull THEN JStr(<<>>) ELSE v

\* the source value is a string, null or missing
StrOrNull(v) == v.t \in {"str", "null"}

\* latitude/longitude of the record for the source value v: absent for a
\* missing or null one, the number itself for a number of at most 6
\* decimal places, 37.386 and -122.0838 for the strings of the scenario
LatLonAsStated(v, out) ==
    /\ v = JNull => out = JNull
    /\ (v.t = "float" /\ v.n % 10 = 0) => out = v
    /\ v = JStr(V_37_386) => out = JFloat(373860000)
    /\ v = JStr(V_m122_0838) => out = JFloat(-1220838000)

\* C21: a record of the ipapi.co adapter is built field for field: ip<-ip,
\* country<-country, country_name<-country_name (empty string when missing
\* or null), region<-region, city<-city, postal_code<-postal,
\* timezone<-timezone, isp<-org (absent when missing), latitude<-latitude,
\* longitude<-longitude as numbers.
C21_CoFieldMapping ==
    (CallEnded /\ client = "IpApiCo" /\ result.kind = "record")
        => LET d == reply.d
               rec == result.rec
           IN  /\ \A f \in {"ip", "country", "country_name"} :
                     StrOrNull(Get(d, f)) => rec[f] = Required(Get(d, f))
               /\ \A p \in {<<"region", "region">>, <<"city", "city">>, <<"postal_code", "postal">>,
                             <<"timezone", "timezone">>, <<"isp", "org">>} :
                     rec[p[1]] = Get(d, p[2])
               /\ LatLonAsStated(Get(d, "latitude"), rec.latitude)
               /\ LatLonAsStated(Get(d, "longitude"), rec.longitude)

C21_Witness ==
    /\ CallEnded /\ client = "IpApiCo"
    /\ ~reply.failed /\ reply.status = 200
    /\ reply.d = BodyCoOk.d
    /\ result.kind = "record"
    /\ result.rec.latitude = JFloat(373860000)
    /\ result.rec.longitude = JFloat(-1220838000)
    /\ result.rec.isp = JStr(V_GoogleLLC)
    /\ result.rec.region = JNull

\* the fields of an ip-api.com record that have one source field
ComPlainFields(d, rec) ==
    /\ \A p \in {<<"ip", "query">>, <<"country", "countryCode">>, <<"country_name", "country">>} :
          StrOrNull(Get(d, p[2])) => rec[p[1]] = Required(Get(d, p[2]))
    /\ rec.city = Get(d, "city")
    /\ rec.timezone = Get(d, "timezone")
    /\ LatLonAsStated(Get(d, "lat"), rec.latitude)
    /\ LatLonAsStated(Get(d, "lon"), rec.longitude)
    /\ Get(d, "zip") = JNull => rec.postal_code = JNull
    /\ (Get(d, "regionName") = JNull /\ Get(d, "region") = JNull) => rec.region = JNull
    /\ (Get(d, "isp") = JNull /\ Get(d, "org") = JNull) => rec.isp = JNull

\* C22 as stated: isp falls back to org only when isp is absent, region to
\* the region code only when regionName is absent.
C22_Original ==
    (CallEnded /\ client = "IpApiCom" /\ result.kind = "record")
        => LET d == reply.d
               rec == result.rec
           IN  /\ ComPlainFields(d, rec)
               /\ Get(d, "isp") # JNull => rec.isp = Get(d, "isp")
               /\ Get(d, "isp") = JNull => rec.isp = Get(d, "org")
               /\ Get(d, "regionName").t = "str" => rec.region \in {Get(d, "regionName"), JNull}
               /\ (Get(d, "regionName") = JNull /\ Get(d, "region").t = "str" /\ Truthy(Get(d, "region")))
                     => rec.region = Get(d, "region")

\* C22 amended: a record of the ip-api.com adapter is built as ip<-query,
\* country<-countryCode, country_name<-country, city<-city, postal_code<-zip,
\* latitude<-lat, longitude<-lon, timezone<-timezone; isp is isp, or org
\* when isp is absent or empty; region is regionName, or the region code
\* when regionName is absent or empty; region and postal_code are absent,
\* never the empty string, when their source is absent or empty.
C22_ComFieldMapping ==
    (CallEnded /\ client = "IpApiCom" /\ result.kind = "record")
        => LET d == reply.d
               rec == result.rec
               name == IF Truthy(Get(d, "regionName")) THEN Get(d, "regionName") ELSE Get(d, "region")
           IN  /\ ComPlainFields(d, rec)
               /\ rec.isp = (IF Truthy(Get(d, "isp")) THEN Get(d, "isp") ELSE Get(d, "org"))
               /\ StrOrNull(name) => rec.region = (IF Truthy(name) THEN name ELSE JNull)
               /\ StrOrNull(Get(d, "zip"))
                     => rec.postal_code = (IF Truthy(Get(d, "zip")) THEN Get(d, "zip") ELSE JNull)
               /\ rec.region # JStr(<<>>) /\ rec.postal_code # JStr(<<>>)

C22_Witness ==
    /\ CallEnded /\ client = "IpApiCom"
    /\ ~reply.failed /\ reply.status = 200
    /\ reply.d = BodyComFallback.d
    /\ result.kind = "record"
    /\ result.rec.isp = JStr(V_GoogleLLC)
    /\ result.rec.region = JStr(V_CA)
    /\ result.rec.postal_code = JNull

\* C23: a failure of the request that is neither a request-validation
\* failure nor one of the four provider error kinds is answered 500 with
\* code internal_error and the fixed message.
C23_UnexpectedFailureIs500 ==
    (Answered /\ valid /\ result.kind \notin {"record"} \cup ErrorKinds)
        => /\ response.status = 500
           /\ response.code = "internal_error"
           /\ response.message = MSG_INTERNAL

\* C24: the UpstreamServiceError an adapter raises for a 4xx status other
\* than 404 and 429 has a message that contains the status code in decimal
\* and the raw body text.
C24_4xxMessageHasStatusAndBody ==
    (CallEnded /\ client \in Adapters /\ Is4xxNot404(reply) /\ reply.status # 429
               /\ result.kind = "UpstreamServiceError"
               /\ result = (IF client = "IpApiCo" THEN Co_handle_http_errors(reply)
                                                   ELSE Com_handle_http_errors(reply)))
        => /\ IsSubstr(DecStr(reply.status), result.msg)
           /\ IsSubstr(reply.text, result.msg)

\* C25: in both adapters a response with any 2xx status has the outcome
\* the same body has with status 200.
C25_Every2xxLike200 ==
    (CallEnded /\ client \in Adapters /\ ~reply.failed /\ reply.status >= 200 /\ reply.status < 300)
        => result = ClientRequest(client, [reply EXCEPT !.status = 200])

C25_Witness ==
    /\ CallEnded /\ client = "IpApiCo"
    /\ ~reply.failed /\ reply.status = 204
    /\ reply.d = BodyCoOk.d
    /\ result.kind = "record"

\* C26: in both adapters a response with a non-error status whose body
\* does not decode as JSON fails with UpstreamServiceError whose message
\* describes the decode failure.
C26_UndecodableBodyIsUpstreamError ==
    (CallEnded /\ client \in Adapters /\ ~reply.failed /\ reply.status < 400
               /\ reply.json = "invalid")
        => /\ result.kind = "UpstreamServiceError"
           /\ result.msg = MSG_DECODE_FAILED \o reply.jsonErr

C26_Witness ==
    /\ CallEnded /\ client = "IpApiCom"
    /\ ~reply.failed /\ reply.status = 200
    /\ reply.text = T_Plain
    /\ result.kind = "UpstreamServiceError"
    /\ IsSubstr(T_JsonErr, result.msg)

\* the fields of an ipapi.co body the record is built from have the types
\* the record declares
CoWellTyped(d) ==
    /\ \A k \in {"region", "city", "postal", "timezone", "org"} : IsOptStr(Get(d, k))
    /\ \A k \in {"latitude", "longitude"} : Get(d, k).t # "bigint"

C29_InvalidRequestOnlyForQuery ==
    (Answered /\ valid) => ~(response.status = 400 /\ response.code = "invalid_request")

\* the fields IpGeolocationData and IPGeolocationData have in common
LegacyFields == <<"ip", "country", "country_name", "region", "city", "latitude", "longitude", "timezone", "isp">>

\* C30: on every response on which IpApiCo returns a record, IpapiClient
\* returns a record with the same ip, country, country_name, region, city,
\* latitude, longitude, timezone and isp; on every response on which
\* IpapiClient raises IpNotFoundError, IpApiCo raises it too.
C30_LegacyAgreesWithCo ==
    /\ (CallEnded /\ client = "IpApiCo" /\ result.kind = "record")
          => LET lg == Legacy_request(reply)
             IN  /\ lg.kind = "record"
                 /\ \A i \in 1..Len(LegacyFields) : lg.rec[LegacyFields[i]] = result.rec[LegacyFields[i]]
    /\ (CallEnded /\ client = "IpapiClient" /\ result.kind = "IpNotFoundError")
          => Co_request(reply).kind = "IpNotFoundError"

C30_Witness ==
    /\ CallEnded /\ client = "IpApiCo"
    /\ ~reply.failed /\ reply.status = 200
    /\ reply.d = BodyCoOk.d
    /\ result.kind = "record"
    /\ Legacy_request(reply).kind = "record"

====
